---------------------------- MODULE Spec2Model ----------------------------
(***************************************************************************)
(* PsicoTrain viewer: the application state object `state', the PDF state  *)
(* `loadedPDF', the module-level gesture variables and the                 *)
(* callbacks the browser has pending (timers, image loads, snapshot        *)
(* decodes, PDF renders), as a state machine.  One action per handler of   *)
(* the second application script (src/unnamed/part_000 from line 1556 on), *)
(* where a later declaration of a function replaces an earlier one, and    *)
(* one per listener and promise continuation of the service worker         *)
(* (src/sw.js).                                                            *)
(*                                                                         *)
(* Each group of handlers is explored under its own specification          *)
(* (PanelSpec, CommitSpec, TallySpec, BothPathsSpec, RowsSpec, ZoomSpec,   *)
(* PinchSpec, WheelSpec, FitSpec, NavSpec, PagingSpec, PreloadSpec,        *)
(* ClockSpec, CanvasSpec, StrokeSpec, ResizeSpec, BrushSpec, CoordsSpec,   *)
(* StorageSpec, SessionSpec, WorkerSpec): all share Init and the action    *)
(* definitions, and differ only in the operations their next-state         *)
(* relation offers.                                                        *)
(***************************************************************************)
EXTENDS Integers, Sequences, FiniteSets, TLC

\* ------------------------------------------------------------------ bounds

\* Fetch events whose promise chain is still running, at most.
MaxFetches == 1
\* Versions of a URL the server publishes: 1..MaxVersion.
MaxVersion == 2

\* Question numbers the user clicks in the panel: 1..MaxQuestion.
MaxQuestion == 2
\* Pending setTimeout(initDrawingCanvas) callbacks the model lets accumulate.
MaxTimers == 1
\* Pending continuations of the async PDF functions the model lets accumulate.
MaxTasks == 2
\* Snapshot decodes the model lets be in flight at once.
MaxDecodes == 1
\* Largest |zoomAccumulator| the explored wheel bursts build up.
MaxAccumulator == 40
\* setInterval ids the model has.
MaxIntervals == 2
\* Elapsed seconds the explored ticks reach.
MaxSeconds == 2
\* Wheel timers the model lets be pending at once.
MaxZoomTimers == 2
\* Rows of the answers panel the explored addMoreQuestions calls reach.
MaxRows == 20

\* ------------------------------------------------------- catalog and inputs

\* The option letters of the panel buttons.
Letters == {"A", "B", "C", "D", "E"}

\* The letters the explored clicks use (a subset of Letters that still has
\* two distinct wrong answers and the first and last button of a row).
ClickLetters == {"A", "B", "E"}

\* The options of the panel buttons the explored clicks are on.
OptionClicks == {"A", "E"}

Questions == 1..MaxQuestion

\* String.prototype.toUpperCase on the one-letter strings of the model.
ToUpperCase(s) ==
    CASE s = "a" -> "A"
      [] s = "b" -> "B"
      [] s = "c" -> "C"
      [] s = "d" -> "D"
      [] s = "e" -> "E"
      [] OTHER -> s

\* state.currentExercise === null
NoExercise == [name |-> "null", total_pages |-> 0, isPDF |-> FALSE]

\* state.currentCategory === null
NoCategory == "null"

\* loadedPDF.document === null
NoDocument == [name |-> "null", numPages |-> 0]

\* data/exercises.json as loadData stored it in state.exercises: one
\* category with a two-page and a one-page exercise.
Exercises ==
    [Verbal |-> {[name |-> "ex1", total_pages |-> 2, isPDF |-> FALSE],
                 [name |-> "ex2", total_pages |-> 1, isPDF |-> FALSE]}]

Categories == DOMAIN Exercises

\* The PDF files the user can pick in the upload panel, with pdf.numPages.
PDFFiles == {[name |-> "docA", numPages |-> 2], [name |-> "docB", numPages |-> 1]}

\* A three-page PDF file: the shortest whose middle page has two neighbours
\* and on which nextPage can be accepted twice.
LongPDF == [name |-> "docC", numPages |-> 3]

\* Zoom levels are fixed-point numbers in thousandths: 1000 is 100%.
ZoomMin == 200
ZoomMax == 4000
ZoomStep == 100
\* The wheel handler's threshold on |zoomAccumulator| and fitToScreen's margin.
WheelThreshold == 30
FitMargin == 40

\* deltaY of the explored wheel events.
WheelDeltas == {-20, 40}

\* Distances between the two fingers of the explored pinch gestures.
PinchDistances == {100, 300}

\* <<clientWidth, clientHeight>> of #imageContainer: a desktop window, a
\* phone in portrait, a large display.
ContainerSizes == {<<1000, 500>>, <<360, 500>>, <<3000, 2000>>}

\* <<naturalWidth, naturalHeight>> of the page image: a wide strip, an A4
\* page rendered at scale 3, a small scan.
NaturalSizes == {<<2000, 500>>, <<1785, 2526>>, <<700, 400>>}

\* data/answers.json as loadData stored it in state.answers, flattened to
\* (category, exercise, page) -> letter.  ex1 page 1 is keyed in lower case,
\* ex1 page 2 in upper case, ex2 page 1 has no entry.
Answers ==
    (<<"Verbal", "ex1", 1>> :> "b") @@ (<<"Verbal", "ex1", 2>> :> "A")

\* The cache of this version of the service worker, and the cache an earlier
\* version left in the browser.
CACHE_NAME == "psicotrain-v2"
OldCacheName == "psicotrain-v1"

\* Two of the URLs install puts into the cache, and with them a page image,
\* which is not on the list: the URLs the explored requests are for.
urlsToCache == {"/app.js"}
Urls == urlsToCache \cup {"/data/ex1/1.png"}

\* event.request.method of the explored requests.
Methods == {"GET", "POST"}

\* What fetch(event.request) ends with: a response of status 200, a response
\* of another status, or a rejection (no network).
NetworkResults == {"200", "404", "offline"}

\* A response body is the URL and the version of it the server sent.
NoBody == <<"none", 0>>

\* ---------------------------------------------------------------- state

VARIABLES
    screen,            \* which of the three screens showScreen left visible
    currentCategory,   \* state.currentCategory
    currentExercise,   \* state.currentExercise
    currentPage,       \* state.currentPage
    zoomLevel,         \* state.zoomLevel, in thousandths
    stats,             \* state.stats
    answeredPages,     \* state.answeredPages, a set of page records
    pageAnswers,       \* state.pageAnswers: exercise name -> set of <<q, letter>>
    questionsPerPage,  \* state.questionsPerPage, 0 while it is undefined
    stopwatch,         \* state.stopwatch
    intervals,         \* ids of the setInterval timers that are active
    drawing,           \* state.drawing: enabled, isDrawing, ctx (canvas set
                       \* up), tool, brushSizes
    canvas,            \* the strokes on the drawing canvas' bitmap
    savedDrawings,     \* state.drawing.savedDrawings: key -> snapshot
    img,               \* the #exerciseImage element: src, load pending, onload set
    timers,            \* pending setTimeout(initDrawingCanvas) callbacks
    decodes,           \* snapshot images restoreDrawing is still decoding
    loadedPDF,         \* loadedPDF
    tasks,             \* pending continuations of the async PDF functions
    zoomAccumulator,   \* zoomAccumulator
    zoomTimeout,       \* the wheel timers that are set and have not fired
    pinch,             \* initialPinchDistance, initialZoomLevel
    storage,           \* localStorage
    storageFull,       \* localStorage.setItem throws (quota exceeded)
    uncaught,          \* the handler the last uncaught exception escaped from
    toast,             \* the message of the last showNotification
    lastCall,          \* the last handler the user invoked, and a call parity
    committedEver,     \* history: the (exercise, page) keys ever committed
    caches,            \* the service worker's CacheStorage: name -> (URL -> body)
    server,            \* the version of each URL the server holds now
    fetches,           \* fetch events whose respondWith promise chain is running
    puts,              \* cache.put calls that have not completed
    served             \* the answer the page received last: to which request,
                       \* from where (cache, network, failed, or browser
                       \* when the request was not intercepted), what

navVars == <<screen, currentCategory, currentExercise, currentPage>>
answerVars == <<stats, answeredPages, pageAnswers, committedEver>>
canvasVars == <<drawing, canvas, savedDrawings, decodes>>
loadVars == <<img, timers>>
pdfVars == <<loadedPDF, tasks>>
zoomVars == <<zoomLevel, zoomAccumulator, zoomTimeout, pinch>>
clockVars == <<stopwatch, intervals>>
faultVars == <<storageFull, uncaught>>
panelVars == <<questionsPerPage>>
swVars == <<caches, server, fetches, puts, served>>

vars == <<navVars, answerVars, canvasVars, loadVars, pdfVars, zoomVars,
          clockVars, faultVars, panelVars, swVars, storage, toast, lastCall>>

\* A user call: the handler's name, its arguments, and a parity bit that
\* flips on every call so that a call that changes nothing is still a step.
Call(op, args) == [op |-> op, args |-> args, n |-> 1 - lastCall.n]

IsCall(op) == lastCall'.n # lastCall.n /\ lastCall'.op = op

\* The drawing tools, and state.drawing.brushSizes as declared.
Tools == {"pen", "highlighter", "eraser"}

InitialBrushSizes == [pen |-> 4, highlighter |-> 12, eraser |-> 20]

\* The values of the brush-size slider the explored changes use, as the
\* strings its value property delivers.
SizeInputs == {"7", "15", "25.5"}

\* parseInt(size): the integer the leading digits of the string spell.
ParseInt(size) ==
    CASE size = "7" -> 7
      [] size = "15" -> 15
      [] size = "25.5" -> 25

\* ----------------------------------------------------------------- Init

\* The state object as declared, after DOMContentLoaded ran on an empty
\* localStorage: the catalog is loaded, nothing is stored, no exercise open.
Init ==
    /\ screen = "welcomeScreen"
    /\ currentCategory = NoCategory
    /\ currentExercise = NoExercise
    /\ currentPage = 1
    /\ zoomLevel = 1000
    /\ stats = [correct |-> 0, incorrect |-> 0]
    /\ answeredPages = {}
    /\ pageAnswers = << >>
    /\ stopwatch = [seconds |-> 0, timerId |-> 0, isRunning |-> FALSE]
    /\ intervals = {}
    /\ drawing = [enabled |-> FALSE, isDrawing |-> FALSE, ctx |-> FALSE,
                  tool |-> "pen", brushSizes |-> InitialBrushSizes]
    /\ canvas = {}
    /\ savedDrawings = << >>
    /\ img = [src |-> <<"none", 0>>, pending |-> FALSE, onload |-> FALSE]
    /\ timers = 0
    /\ decodes = {}
    /\ loadedPDF = [document |-> NoDocument, currentPage |-> 1, totalPages |-> 0,
                    fileName |-> "", pageCache |-> << >>]
    /\ tasks = {}
    /\ zoomAccumulator = 0
    /\ zoomTimeout = 0
    /\ pinch = [initialPinchDistance |-> 0, initialZoomLevel |-> 1000]
    /\ storage = << >>
    /\ questionsPerPage = 0
    /\ storageFull = FALSE
    /\ uncaught = "none"
    /\ toast = "none"
    /\ lastCall = [op |-> "none", args |-> << >>, n |-> 0]
    /\ committedEver = {}
    /\ caches = (OldCacheName :> [u \in urlsToCache |-> <<u, 0>>])
    /\ server = [u \in Urls |-> 1]
    /\ fetches = {}
    /\ puts = {}
    /\ served = [url |-> "none", method |-> "none", source |-> "none",
                 status |-> 0, body |-> NoBody]

\* ------------------------------------------------------------ helpers

\* exercise.pages.length: a catalog exercise lists one image per page, the
\* temporary exercise loadPDFFromFile creates has pages: [].
NumPageImages(ex) == IF ex.isPDF THEN 0 ELSE ex.total_pages

\* The key of an annotation snapshot, `${name}_${page}`.
DrawingKey(ex, page) == <<ex.name, page>>

\* JSON.stringify / JSON.parse.  Every value the application persists is
\* plain JSON data (objects of strings, numbers, booleans and null), which
\* the text carries whole; the text of a value is kept apart from the value.
Stringify(value) == [json |-> value]

Parse(text) == text.json

\* localStorage.setItem(key, JSON.stringify(value)) when it does not throw.
SetItem(st, key, value) == (key :> Stringify(value)) @@ st

\* Variant of the loaders' read: the stored item is ignored.
GetNothing(st, key, inPlace) == inPlace

\* localStorage.getItem(key) and the loaders' `if (saved)' test: the parsed
\* item, or the value the loader leaves in place when there is no item.
GetItem(st, key, inPlace) ==
    IF key \in DOMAIN st THEN Parse(st[key]) ELSE inPlace

\* The stopwatch with the interval timers of the page: state.stopwatch and
\* the ids setInterval has handed out and clearInterval has not cleared.
Clock(sw, active) == [sw |-> sw, active |-> active]

\* The id setInterval returns.
NewTimerId(active) ==
    CHOOSE i \in (1..MaxIntervals) \ active :
        \A j \in (1..MaxIntervals) \ active : i <= j

\* Whether startTimer is within the ids the model has.
CanStartTimer(c) == c.sw.isRunning \/ (1..MaxIntervals) \ c.active # {}

\* Variant of startTimer: the isRunning test left out.
UnguardedStartTimer(c) ==
    [sw |-> [c.sw EXCEPT !.isRunning = TRUE, !.timerId = NewTimerId(c.active)],
     active |-> c.active \cup {NewTimerId(c.active)}]

\* startTimer: nothing when already running, else one new interval.
StartTimer(c) ==
    IF c.sw.isRunning THEN c
    ELSE [sw |-> [c.sw EXCEPT !.isRunning = TRUE,
                              !.timerId = NewTimerId(c.active)],
          active |-> c.active \cup {NewTimerId(c.active)}]

\* Variant of stopTimer: the interval is not cleared.
StopWithoutClearing(c) ==
    [c EXCEPT !.sw = [c.sw EXCEPT !.isRunning = FALSE, !.timerId = 0]]

\* stopTimer: isRunning off, the interval (if any) cleared.
StopTimer(c) ==
    [sw |-> [c.sw EXCEPT !.isRunning = FALSE, !.timerId = 0],
     active |-> IF c.sw.timerId # 0 THEN c.active \ {c.sw.timerId}
                ELSE c.active]

\* Variant of the reset of the seconds: they are kept.
KeepSeconds(c) == c

\* state.stopwatch.seconds = 0
ResetSeconds(c) == [c EXCEPT !.sw = [c.sw EXCEPT !.seconds = 0]]

\* resizeCanvas: assigning canvas.width and canvas.height resets the bitmap.
ResizeCanvas(bitmap) == {}

\* restoreDrawing: with an exercise open, a canvas set up and a snapshot
\* stored under the current key, start decoding that snapshot; the decode
\* carries the data URL read now.  Decodes of the same data are one element:
\* drawing the same bitmap again adds nothing to the strokes it holds.
RestoreDrawing(ex, page, ctx, pending) ==
    IF ex # NoExercise /\ ctx /\ DrawingKey(ex, page) \in DOMAIN savedDrawings
    THEN pending \cup {[key |-> DrawingKey(ex, page),
                        data |-> savedDrawings[DrawingKey(ex, page)]]}
    ELSE pending

\* The original loadPage on the image element: the page's path becomes the
\* image's src when the exercise lists an image for the page.
LoadPageImage(ex, page) ==
    IF ex # NoExercise /\ page \in 1..NumPageImages(ex)
    THEN [img EXCEPT !.src = <<ex.name, page>>, !.pending = TRUE]
    ELSE img

\* loadPage as reassigned: the original, then setTimeout(initDrawingCanvas).
LoadPage(ex, page) ==
    /\ timers < MaxTimers
    /\ img' = LoadPageImage(ex, page)
    /\ timers' = timers + 1

\* ------------------------------------------------- catalog navigation

\* selectCategory(category), from the sidebar.
SelectCategoryBody(category) ==
    /\ currentCategory' = category
    /\ currentExercise' = NoExercise
    /\ screen' = "exerciseListScreen"

SelectCategory(category) ==
    /\ SelectCategoryBody(category)
    /\ lastCall' = Call("selectCategory", <<category>>)
    /\ UNCHANGED <<currentPage, answerVars, canvasVars, loadVars, pdfVars,
                   zoomVars, clockVars, panelVars, swVars, faultVars, storage, toast>>

\* goBackToList, the later declaration: it does not stop the stopwatch.
GoBackToList ==
    /\ screen = "exerciseViewerScreen"
    /\ SelectCategoryBody(currentCategory)
    /\ lastCall' = Call("goBackToList", << >>)
    /\ UNCHANGED <<currentPage, answerVars, canvasVars, loadVars, pdfVars,
                   zoomVars, clockVars, panelVars, swVars, faultVars, storage, toast>>

\* selectExercise(exercise), a click on a card of the exercise list.  The
\* call is logged with whether the stopwatch was running when it was made.
SelectExercise(exercise) ==
    /\ screen = "exerciseListScreen"
    /\ currentCategory \in Categories
    /\ exercise \in Exercises[currentCategory]
    /\ currentExercise' = exercise
    /\ currentPage' = 1
    /\ zoomLevel' = 1000
    /\ screen' = "exerciseViewerScreen"
    /\ CanStartTimer(Clock(stopwatch, intervals))
    /\ stopwatch' = StartTimer(ResetSeconds(Clock(stopwatch, intervals))).sw
    /\ intervals' = StartTimer(ResetSeconds(Clock(stopwatch, intervals))).active
    /\ LoadPage(exercise, 1)
    /\ lastCall' = Call("selectExercise", <<exercise.name, stopwatch.isRunning>>)
    /\ UNCHANGED <<currentCategory, answerVars, canvasVars, pdfVars,
                   zoomAccumulator, zoomTimeout, pinch, panelVars, swVars, faultVars, storage, toast>>

\* prevPage as first declared (catalog exercises).
OriginalPrevPage ==
    /\ IF currentPage > 1
       THEN /\ currentPage' = currentPage - 1
            /\ LoadPage(currentExercise, currentPage - 1)
       ELSE UNCHANGED <<currentPage, loadVars>>
    /\ UNCHANGED <<pdfVars>>

\* Variant of nextPage: the range test left out.
UnguardedNextPage ==
    /\ currentPage' = currentPage + 1
    /\ LoadPage(currentExercise, currentPage + 1)
    /\ UNCHANGED <<pdfVars>>

\* nextPage as first declared (catalog exercises).
OriginalNextPage ==
    /\ IF currentPage < currentExercise.total_pages
       THEN /\ currentPage' = currentPage + 1
            /\ LoadPage(currentExercise, currentPage + 1)
       ELSE UNCHANGED <<currentPage, loadVars>>
    /\ UNCHANGED <<pdfVars>>

\* ------------------------------------------------ canvas set-up callbacks

\* initDrawingCanvas, run by a timer: take the canvas and its context, set
\* img.onload, and when the image is complete resize and restore at once.
InitDrawingCanvas ==
    /\ drawing' = [drawing EXCEPT !.ctx = TRUE]
    /\ img' = [img EXCEPT !.onload = TRUE]
    /\ IF ~img.pending
       THEN /\ canvas' = ResizeCanvas(canvas)
            /\ Cardinality(RestoreDrawing(currentExercise, currentPage, TRUE, decodes))
                   <= MaxDecodes
            /\ decodes' = RestoreDrawing(currentExercise, currentPage, TRUE, decodes)
       ELSE UNCHANGED <<canvas, decodes>>

TimerFires ==
    /\ timers > 0
    /\ timers' = timers - 1
    /\ InitDrawingCanvas
    /\ UNCHANGED <<navVars, answerVars, savedDrawings, pdfVars, zoomVars,
                   clockVars, panelVars, swVars, faultVars, storage, toast, lastCall>>

\* The image element finishes loading its src: img.complete becomes true and
\* img.onload, when initDrawingCanvas has set it, resizes and restores.
ImageLoaded ==
    /\ img.pending
    /\ img' = [img EXCEPT !.pending = FALSE]
    /\ IF img.onload
       THEN /\ canvas' = ResizeCanvas(canvas)
            /\ Cardinality(RestoreDrawing(currentExercise, currentPage,
                                          drawing.ctx, decodes)) <= MaxDecodes
            /\ decodes' = RestoreDrawing(currentExercise, currentPage,
                                         drawing.ctx, decodes)
       ELSE UNCHANGED <<canvas, decodes>>
    /\ UNCHANGED <<navVars, answerVars, drawing, savedDrawings, timers, pdfVars,
                   zoomVars, clockVars, panelVars, swVars, faultVars, storage, toast, lastCall>>

\* --------------------------------------------------------- answer panel

\* An answer object {question: letter} is the set of its <<question, letter>>
\* properties; a property of value null would be <<question, "null">>.
Selected(answerMap, q) == {e[2] : e \in {x \in answerMap : x[1] = q}}

\* Variant of the deletion: answerMap[q] = null.
StoreNullMarker(answerMap, q) ==
    {e \in answerMap : e[1] # q} \cup {<<q, "null">>}

\* delete answerMap[q]
DeleteAnswer(answerMap, q) == {e \in answerMap : e[1] # q}

\* answerMap[q] = option
SetAnswer(answerMap, q, option) ==
    {e \in answerMap : e[1] # q} \cup {<<q, option>>}

\* getExerciseAnswers: state.pageAnswers[exerciseName] || {}
GetExerciseAnswers(answers, exerciseName) ==
    IF exerciseName \in DOMAIN answers THEN answers[exerciseName] ELSE {}

\* Variant of the toggle: the option is stored without the toggle-off test.
AlwaysSetOption(answerMap, q, option) == SetAnswer(answerMap, q, option)

\* The toggle of selectOption on one exercise's answer object.
ToggleOption(answerMap, q, option) ==
    IF Selected(answerMap, q) = {option}
    THEN DeleteAnswer(answerMap, q)
    ELSE SetAnswer(answerMap, q, option)

\* state.pageAnswers after selectOption(q, option) in exercise exerciseName.
SelectOptionResult(answers, exerciseName, q, option) ==
    (exerciseName :>
        ToggleOption(GetExerciseAnswers(answers, exerciseName), q, option))
    @@ answers

\* Variant of savePageAnswers: nothing is written.
SkipPageAnswers(answers) == storage

\* savePageAnswers: the whole map; a throwing setItem is caught.
SavePageAnswers(answers) ==
    IF storageFull THEN storage
    ELSE SetItem(storage, "psicotrain_page_answers", answers)

\* selectOption(questionNum, option), a click on a panel button.  The call
\* is logged with the selection question q had when it was made.
SelectOption(q, option) ==
    /\ screen = "exerciseViewerScreen"
    /\ pageAnswers' = SelectOptionResult(pageAnswers, currentExercise.name, q, option)
    /\ storage' = SavePageAnswers(pageAnswers')
    /\ lastCall' = Call("selectOption",
                        <<q, option,
                          Selected(GetExerciseAnswers(pageAnswers, currentExercise.name), q)>>)
    /\ UNCHANGED <<navVars, stats, answeredPages, committedEver, canvasVars,
                   loadVars, pdfVars, zoomVars, clockVars, panelVars, swVars, faultVars, toast>>

\* Variant of the assignment of clearPageAnswers: every exercise is emptied.
ClearEveryExercise(answers, exerciseName) ==
    [name \in DOMAIN answers \cup {exerciseName} |-> {}]

\* state.pageAnswers after clearPageAnswers took effect.
ClearResult(answers, exerciseName) == (exerciseName :> {}) @@ answers

\* Variant of clearPageAnswers: the committed records go as well.
ClearCommittedToo ==
    /\ screen = "exerciseViewerScreen"
    /\ pageAnswers' = ClearResult(pageAnswers, currentExercise.name)
    /\ answeredPages' = {}
    /\ storage' = SavePageAnswers(pageAnswers')
    /\ toast' = "Respuestas limpiadas"
    /\ lastCall' = Call("clearPageAnswers", << >>)
    /\ UNCHANGED <<navVars, stats, committedEver, canvasVars,
                   loadVars, pdfVars, zoomVars, clockVars, panelVars, swVars, faultVars>>

\* clearPageAnswers: only when the exercise has an answer object.
ClearPageAnswers ==
    /\ screen = "exerciseViewerScreen"
    /\ IF currentExercise.name \in DOMAIN pageAnswers
       THEN /\ pageAnswers' = ClearResult(pageAnswers, currentExercise.name)
            /\ storage' = SavePageAnswers(pageAnswers')
            /\ toast' = "Respuestas limpiadas"
       ELSE UNCHANGED <<pageAnswers, storage, toast>>
    /\ lastCall' = Call("clearPageAnswers", << >>)
    /\ UNCHANGED <<navVars, stats, answeredPages, committedEver, canvasVars,
                   loadVars, pdfVars, zoomVars, clockVars, panelVars, swVars, faultVars>>

\* state.questionsPerPage || 10: the rows renderAnswersPanel shows.
NumQuestions(perPage) == IF perPage = 0 THEN 10 ELSE perPage

\* Variant of the increment: the stored number without its default.
MoreThanStored(perPage) == perPage + 5

\* (state.questionsPerPage || 10) + 5
MoreQuestions(perPage) == NumQuestions(perPage) + 5

\* addMoreQuestions, the button under the panel; the model stops growing
\* the panel at MaxRows rows.
AddMoreQuestions ==
    /\ screen = "exerciseViewerScreen"
    /\ NumQuestions(questionsPerPage) + 5 <= MaxRows
    /\ questionsPerPage' = MoreQuestions(questionsPerPage)
    /\ lastCall' = Call("addMoreQuestions", << >>)
    /\ UNCHANGED <<navVars, answerVars, canvasVars, loadVars, pdfVars,
                   zoomVars, clockVars, faultVars, swVars, storage, toast>>

\* ---------------------------------------------------- committed answers

\* state.answeredPages[exerciseName][pageKey], as a set of at most one record.
PageRecord(answered, exerciseName, page) ==
    {r \in answered : r.exercise = exerciseName /\ r.page = page}

\* Variant of the key letter: the entry as stored, without toUpperCase.
KeyAsStored(categoryName, exerciseName, page) ==
    IF <<categoryName, exerciseName, page>> \in DOMAIN Answers
       /\ Answers[<<categoryName, exerciseName, page>>] # ""
    THEN Answers[<<categoryName, exerciseName, page>>]
    ELSE "null"

\* The answer-key letter of selectAnswer: the entry of state.answers for
\* (category, exercise, page) in upper case, or null without a (non-empty) entry.
CorrectAnswer(categoryName, exerciseName, page) ==
    IF <<categoryName, exerciseName, page>> \in DOMAIN Answers
       /\ Answers[<<categoryName, exerciseName, page>>] # ""
    THEN ToUpperCase(Answers[<<categoryName, exerciseName, page>>])
    ELSE "null"

\* isCorrect of selectAnswer: true, false, or null without a key letter.
IsCorrect(answer, correctAnswer) ==
    IF correctAnswer # "null"
    THEN (IF answer = correctAnswer THEN "true" ELSE "false")
    ELSE "null"

\* Variant of the branch on isCorrect: a commit without a key letter counts
\* as incorrect.
CountUnkeyedToo(st, isCorrect) ==
    IF isCorrect = "true" THEN [st EXCEPT !.correct = @ + 1]
    ELSE [st EXCEPT !.incorrect = @ + 1]

\* state.stats after the branch on isCorrect.
CountAnswer(st, isCorrect) ==
    CASE isCorrect = "true" -> [st EXCEPT !.correct = @ + 1]
      [] isCorrect = "false" -> [st EXCEPT !.incorrect = @ + 1]
      [] OTHER -> st

\* saveStats: both items, no try/catch; a throwing setItem writes nothing.
SaveStats(st, answered) ==
    IF storageFull THEN storage
    ELSE SetItem(SetItem(storage, "psicotrain_stats", st),
                 "psicotrain_answered", answered)

\* The handler an exception of saveStats escapes from, when setItem throws.
SaveStatsThrows(handler) == IF storageFull THEN handler ELSE uncaught

\* Variant of the guard: no page counts as answered.
NeverAnswered(answered, exerciseName, page) == FALSE

\* The guard of selectAnswer: the page already has a record.
AlreadyAnswered(answered, exerciseName, page) ==
    PageRecord(answered, exerciseName, page) # {}

\* selectAnswer(answer), a click on an answer button (data-answer is the
\* upper-case letter the handler also looks the correct button up by).
SelectAnswer(answer) ==
    /\ screen = "exerciseViewerScreen"
    /\ LET exerciseName == currentExercise.name
           correctAnswer == CorrectAnswer(currentCategory, exerciseName, currentPage)
           isCorrect == IsCorrect(answer, correctAnswer)
       IN IF AlreadyAnswered(answeredPages, exerciseName, currentPage)
          THEN /\ toast' = "Ya has respondido esta pregunta"
               /\ UNCHANGED <<stats, answeredPages, committedEver, storage,
                              uncaught>>
          ELSE /\ stats' = CountAnswer(stats, isCorrect)
               /\ answeredPages' = answeredPages \cup
                      {[exercise |-> exerciseName, page |-> currentPage,
                        selected |-> answer, correct |-> correctAnswer,
                        wasCorrect |-> isCorrect]}
               /\ committedEver' = committedEver \cup {<<exerciseName, currentPage>>}
               /\ storage' = SaveStats(stats', answeredPages')
               /\ uncaught' = SaveStatsThrows("selectAnswer")
               /\ UNCHANGED toast
    /\ lastCall' = Call("selectAnswer", <<answer>>)
    /\ UNCHANGED <<navVars, pageAnswers, canvasVars, loadVars, pdfVars,
                   zoomVars, clockVars, storageFull, panelVars, swVars>>

\* Variant of resetStats: the dialog's answer is not looked at.
ResetWithoutAsking(confirmed) ==
    /\ stats' = [correct |-> 0, incorrect |-> 0]
    /\ answeredPages' = {}
    /\ storage' = SaveStats(stats', answeredPages')
    /\ uncaught' = SaveStatsThrows("resetStats")
    /\ toast' = IF storageFull THEN toast ELSE "Estadisticas reiniciadas"
    /\ lastCall' = Call("resetStats", <<confirmed>>)
    /\ UNCHANGED <<navVars, pageAnswers, committedEver, canvasVars, loadVars,
                   pdfVars, zoomVars, clockVars, storageFull, panelVars, swVars>>

\* Variant of resetStats: the counters are zeroed, the records are kept.
ResetCountersOnly(confirmed) ==
    /\ IF confirmed
       THEN /\ stats' = [correct |-> 0, incorrect |-> 0]
            /\ storage' = SaveStats(stats', answeredPages)
            /\ uncaught' = SaveStatsThrows("resetStats")
            /\ toast' = IF storageFull THEN toast ELSE "Estadisticas reiniciadas"
       ELSE UNCHANGED <<stats, storage, toast, uncaught>>
    /\ lastCall' = Call("resetStats", <<confirmed>>)
    /\ UNCHANGED <<navVars, answeredPages, pageAnswers, committedEver, canvasVars,
                   loadVars, pdfVars, zoomVars, clockVars, storageFull, panelVars, swVars>>

\* resetStats: nothing unless the user confirms the dialog; an exception of
\* saveStats leaves the function before the notification.
ResetStats(confirmed) ==
    /\ IF confirmed
       THEN /\ stats' = [correct |-> 0, incorrect |-> 0]
            /\ answeredPages' = {}
            /\ storage' = SaveStats(stats', answeredPages')
            /\ uncaught' = SaveStatsThrows("resetStats")
            /\ toast' = IF storageFull THEN toast ELSE "Estadisticas reiniciadas"
       ELSE UNCHANGED <<stats, answeredPages, storage, toast, uncaught>>
    /\ lastCall' = Call("resetStats", <<confirmed>>)
    /\ UNCHANGED <<navVars, pageAnswers, committedEver, canvasVars, loadVars,
                   pdfVars, zoomVars, clockVars, storageFull, panelVars, swVars>>

\* loadPageAnswers, loadStats and loadSavedDrawings on the state object as
\* declared: each assigns the parsed item when localStorage has one.
LoadPageAnswers(st) == GetItem(st, "psicotrain_page_answers", << >>)

LoadStats(st) == GetItem(st, "psicotrain_stats", [correct |-> 0, incorrect |-> 0])

LoadAnswered(st) == GetItem(st, "psicotrain_answered", {})

LoadSavedDrawings(st) == GetItem(st, "psicotrain_drawings", << >>)

\* Variant of the merge of loadBrushSizes: the declared widths win.
DeclaredSizesWin(declared, sizes) == declared @@ sizes

\* { ...state.drawing.brushSizes, ...sizes }: the loaded widths over the
\* declared ones.
SpreadSizes(declared, sizes) == sizes @@ declared

\* loadBrushSizes on the state object as declared.
LoadBrushSizes(st) ==
    IF "psicotrain_brush_sizes" \in DOMAIN st
    THEN SpreadSizes(InitialBrushSizes, Parse(st["psicotrain_brush_sizes"]))
    ELSE InitialBrushSizes

\* The page is reloaded: a fresh session.  The script declares the state
\* object anew, pending callbacks of the old page are gone, localStorage
\* stays, and DOMContentLoaded runs the loaders.
Reload ==
    /\ screen' = "welcomeScreen"
    /\ currentCategory' = NoCategory
    /\ currentExercise' = NoExercise
    /\ currentPage' = 1
    /\ zoomLevel' = 1000
    /\ stats' = LoadStats(storage)
    /\ answeredPages' = LoadAnswered(storage)
    /\ pageAnswers' = LoadPageAnswers(storage)
    /\ stopwatch' = [seconds |-> 0, timerId |-> 0, isRunning |-> FALSE]
    /\ intervals' = {}
    /\ drawing' = [enabled |-> FALSE, isDrawing |-> FALSE, ctx |-> FALSE,
                   tool |-> "pen", brushSizes |-> LoadBrushSizes(storage)]
    /\ canvas' = {}
    /\ savedDrawings' = LoadSavedDrawings(storage)
    /\ img' = [src |-> <<"none", 0>>, pending |-> FALSE, onload |-> FALSE]
    /\ timers' = 0
    /\ decodes' = {}
    /\ loadedPDF' = [document |-> NoDocument, currentPage |-> 1, totalPages |-> 0,
                     fileName |-> "", pageCache |-> << >>]
    /\ tasks' = {}
    /\ zoomAccumulator' = 0
    /\ zoomTimeout' = 0
    /\ pinch' = [initialPinchDistance |-> 0, initialZoomLevel |-> 1000]
    /\ questionsPerPage' = 0
    /\ uncaught' = "none"
    /\ toast' = "none"
    /\ lastCall' = Call("reload", << >>)
    /\ UNCHANGED <<storage, storageFull, committedEver, swVars>>

\* The browser's storage quota is reached or freed: from now on
\* localStorage.setItem throws, or no longer does.
QuotaChanges ==
    /\ storageFull' = ~storageFull
    /\ UNCHANGED <<navVars, answerVars, canvasVars, loadVars, pdfVars,
                   zoomVars, clockVars, uncaught, panelVars, swVars, storage, toast, lastCall>>

\* ------------------------------------------------------------ PDF viewing

\* The image renderPDFPage or preloadAdjacentPages produces for a page of a
\* document: canvas.toDataURL of that page's rendering.
PageImage(doc, page) == <<doc.name, page>>

\* document.getPage(page) resolves only for a page of the document.
HasPage(doc, page) == page \in 1..doc.numPages

Cached(page) == page \in DOMAIN loadedPDF.pageCache

\* The pages preloadAdjacentPages(page) decides to render, in its order.
PagesToPreload(pdf, page) ==
    (IF page > 1 /\ (page - 1) \notin DOMAIN pdf.pageCache
     THEN <<page - 1>> ELSE << >>)
    \o (IF page < pdf.totalPages /\ (page + 1) \notin DOMAIN pdf.pageCache
        THEN <<page + 1>> ELSE << >>)

\* preloadAdjacentPages(page) up to its first await: getPage on the document
\* loaded now, for the first page of its list.
PreloadTask(pdf, page) ==
    IF pdf.document # NoDocument /\ PagesToPreload(pdf, page) # << >>
    THEN {[kind |-> "preload", doc |-> pdf.document, page |-> 0,
           pages |-> PagesToPreload(pdf, page), then |-> "none"]}
    ELSE {}

\* renderPDFPage(page) up to its first await, called with the document loaded
\* and the page not cached: getPage on the document loaded now.  `then' is
\* the caller that awaits it.
RenderTask(pdf, page, caller) ==
    {[kind |-> "render", doc |-> pdf.document, page |-> page,
      pages |-> << >>, then |-> caller]}

\* The cached branch of renderPDFPage: show the cached image and the page
\* indicator; neither currentPage is assigned.
ShowCached(page) == [img EXCEPT !.src = loadedPDF.pageCache[page], !.pending = TRUE]

\* The PDF branch of prevPage / nextPage towards page `target'.
PDFNavigate(target) ==
    /\ UNCHANGED currentPage
    /\ IF Cached(target)
       THEN /\ img' = ShowCached(target)
            /\ Cardinality(tasks \cup PreloadTask(loadedPDF, loadedPDF.currentPage))
                   <= MaxTasks
            /\ tasks' = tasks \cup PreloadTask(loadedPDF, loadedPDF.currentPage)
            /\ UNCHANGED <<loadedPDF, timers>>
       ELSE /\ Cardinality(tasks \cup RenderTask(loadedPDF, target, "nav")) <= MaxTasks
            /\ tasks' = tasks \cup RenderTask(loadedPDF, target, "nav")
            /\ UNCHANGED <<loadedPDF, loadVars>>

InPDFMode == loadedPDF.document # NoDocument /\ currentExercise.isPDF

\* prevPage as reassigned.
PrevPageBody ==
    IF InPDFMode
    THEN IF loadedPDF.currentPage > 1
         THEN PDFNavigate(loadedPDF.currentPage - 1)
         ELSE UNCHANGED <<currentPage, loadVars, pdfVars>>
    ELSE OriginalPrevPage

\* nextPage as reassigned.
NextPageBody ==
    IF InPDFMode
    THEN IF loadedPDF.currentPage < loadedPDF.totalPages
         THEN PDFNavigate(loadedPDF.currentPage + 1)
         ELSE UNCHANGED <<currentPage, loadVars, pdfVars>>
    ELSE OriginalNextPage

\* Whether prevPage / nextPage passes its range guard.
PrevPageAccepted ==
    IF InPDFMode THEN loadedPDF.currentPage > 1 ELSE currentPage > 1

NextPageAccepted ==
    IF InPDFMode THEN loadedPDF.currentPage < loadedPDF.totalPages
    ELSE currentPage < currentExercise.total_pages

\* The previous-page button or the left arrow key, with an exercise open.
PrevPage ==
    /\ screen = "exerciseViewerScreen"
    /\ PrevPageBody
    /\ lastCall' = Call("prevPage", <<PrevPageAccepted>>)
    /\ UNCHANGED <<screen, currentCategory, currentExercise, answerVars,
                   canvasVars, zoomVars, clockVars, panelVars, swVars, faultVars, storage, toast>>

\* The next-page button or the right arrow key, with an exercise open.
NextPage ==
    /\ screen = "exerciseViewerScreen"
    /\ NextPageBody
    /\ lastCall' = Call("nextPage", <<NextPageAccepted>>)
    /\ UNCHANGED <<screen, currentCategory, currentExercise, answerVars,
                   canvasVars, zoomVars, clockVars, panelVars, swVars, faultVars, storage, toast>>

\* loadPDFFromFile(file) up to its first await.
LoadPDFFromFile(file) ==
    /\ Cardinality(tasks \cup {[kind |-> "open", doc |-> file, page |-> 0,
                                pages |-> << >>, then |-> "none"]}) <= MaxTasks
    /\ tasks' = tasks \cup {[kind |-> "open", doc |-> file, page |-> 0,
                             pages |-> << >>, then |-> "none"]}
    /\ toast' = "Cargando PDF..."
    /\ lastCall' = Call("loadPDFFromFile", <<file.name>>)
    /\ UNCHANGED <<navVars, answerVars, canvasVars, loadVars, loadedPDF,
                   zoomVars, clockVars, panelVars, swVars, faultVars, storage>>

\* loadPDFFromFile after getDocument resolved: the document becomes the
\* loaded one with an empty cache, a temporary exercise is entered at page 1,
\* and renderPDFPage(1) starts.  When getDocument rejects: a notification.
PDFOpened(task, ok) ==
    /\ task \in tasks
    /\ task.kind = "open"
    /\ IF ok
       THEN /\ loadedPDF' = [document |-> task.doc, currentPage |-> 1,
                             totalPages |-> task.doc.numPages,
                             fileName |-> task.doc.name, pageCache |-> << >>]
            /\ currentExercise' = [name |-> task.doc.name,
                                   total_pages |-> task.doc.numPages, isPDF |-> TRUE]
            /\ currentPage' = 1
            /\ zoomLevel' = 1000
            /\ screen' = "exerciseViewerScreen"
            /\ tasks' = (tasks \ {task}) \cup RenderTask(loadedPDF', 1, "load")
            /\ UNCHANGED toast
       ELSE /\ tasks' = tasks \ {task}
            /\ toast' = "Error al cargar el PDF"
            /\ UNCHANGED <<loadedPDF, currentExercise, currentPage, zoomLevel, screen>>
    /\ UNCHANGED <<currentCategory, answerVars, canvasVars, loadVars,
                   zoomAccumulator, zoomTimeout, pinch, clockVars, panelVars, swVars, faultVars, storage, lastCall>>

\* loadedPDF after the tail of renderPDFPage(page): the image is cached and
\* both page numbers of the PDF state are assigned.
Rendered(pdf, doc, page) ==
    [pdf EXCEPT !.pageCache = (page :> PageImage(doc, page)) @@ @,
                !.currentPage = page]

\* state.currentPage after the tail of renderPDFPage(page).
RenderedPage(page) == page

\* renderPDFPage after page.render resolved (ok, for a page the document
\* has) or after a rejection was caught; then the caller that awaited it goes
\* on: preloadAdjacentPages, and for loadPDFFromFile the notification.
PDFPageRendered(task, ok) ==
    /\ task \in tasks
    /\ task.kind = "render"
    /\ IF ok /\ HasPage(task.doc, task.page)
       THEN /\ loadedPDF' = Rendered(loadedPDF, task.doc, task.page)
            /\ img' = [img EXCEPT !.src = PageImage(task.doc, task.page),
                                  !.pending = TRUE]
            /\ currentPage' = RenderedPage(task.page)
       ELSE UNCHANGED <<loadedPDF, img, currentPage>>
    /\ tasks' = (tasks \ {task}) \cup
                PreloadTask(loadedPDF', IF task.then = "load" THEN 1
                                        ELSE loadedPDF'.currentPage)
    /\ toast' = IF task.then = "load" THEN "PDF cargado" ELSE toast
    /\ UNCHANGED <<screen, currentCategory, currentExercise, answerVars,
                   canvasVars, timers, zoomVars, clockVars, panelVars, swVars, faultVars, storage, lastCall>>

\* preloadAdjacentPages after the render of the first page of its list
\* resolved (the image is cached) or was caught; the loop goes on with the
\* next page, on the document loaded by then.
PDFPagePreloaded(task, ok) ==
    /\ task \in tasks
    /\ task.kind = "preload"
    /\ loadedPDF' =
          IF ok /\ HasPage(task.doc, Head(task.pages))
          THEN [loadedPDF EXCEPT !.pageCache =
                   (Head(task.pages) :> PageImage(task.doc, Head(task.pages))) @@ @]
          ELSE loadedPDF
    /\ tasks' = (tasks \ {task}) \cup
                (IF Tail(task.pages) # << >>
                 THEN {[task EXCEPT !.doc = loadedPDF.document,
                                    !.pages = Tail(task.pages)]}
                 ELSE {})
    /\ UNCHANGED <<navVars, answerVars, canvasVars, loadVars, zoomVars,
                   clockVars, panelVars, swVars, faultVars, storage, toast, lastCall>>

\* --------------------------------------------------------------- zoom

Min(a, b) == IF a < b THEN a ELSE b
Max(a, b) == IF a > b THEN a ELSE b

\* Math.round(z * 10) / 10 on thousandths: to the nearest tenth, a half up.
RoundToTenth(z) == ((z + 50) \div 100) * 100

\* zoomIn: one step up, capped at 4, rounded.
ZoomInLevel(z) == RoundToTenth(Min(z + ZoomStep, ZoomMax))

\* zoomOut: one step down, floored at 0.2, rounded.
ZoomOutLevel(z) == RoundToTenth(Max(z - ZoomStep, ZoomMin))

\* The touchmove handler: initialZoomLevel * currentDistance /
\* initialPinchDistance, clamped to [0.2, 4] and rounded.
PinchLevel(initialZoom, currentDistance, initialDistance) ==
    RoundToTenth(Max(ZoomMin,
                     Min(ZoomMax, (initialZoom * currentDistance) \div initialDistance)))

\* Variant of fitToScreen: the width ratio whatever the aspect ratios.
FitWidth(container, natural) ==
    ((container[1] - FitMargin) * 1000) \div natural[1]

\* fitToScreen: the container less the margin; the width ratio when the
\* image's aspect ratio exceeds the container's, else the height ratio.
\* (naturalWidth / naturalHeight > width / height, cross-multiplied.)
FitLevel(container, natural) ==
    LET containerWidth == container[1] - FitMargin
        containerHeight == container[2] - FitMargin
    IN IF natural[1] * containerHeight > containerWidth * natural[2]
       THEN (containerWidth * 1000) \div natural[1]
       ELSE (containerHeight * 1000) \div natural[2]

ZoomIn ==
    /\ screen = "exerciseViewerScreen"
    /\ zoomLevel' = ZoomInLevel(zoomLevel)
    /\ lastCall' = Call("zoomIn", << >>)
    /\ UNCHANGED <<navVars, answerVars, canvasVars, loadVars, pdfVars,
                   zoomAccumulator, zoomTimeout, pinch, clockVars, panelVars, swVars, faultVars, storage, toast>>

ZoomOut ==
    /\ screen = "exerciseViewerScreen"
    /\ zoomLevel' = ZoomOutLevel(zoomLevel)
    /\ lastCall' = Call("zoomOut", << >>)
    /\ UNCHANGED <<navVars, answerVars, canvasVars, loadVars, pdfVars,
                   zoomAccumulator, zoomTimeout, pinch, clockVars, panelVars, swVars, faultVars, storage, toast>>

ResetZoom ==
    /\ screen = "exerciseViewerScreen"
    /\ zoomLevel' = 1000
    /\ lastCall' = Call("resetZoom", << >>)
    /\ UNCHANGED <<navVars, answerVars, canvasVars, loadVars, pdfVars,
                   zoomAccumulator, zoomTimeout, pinch, clockVars, panelVars, swVars, faultVars, storage, toast>>

\* fitToScreen, with the sizes the container and the image have then; the
\* call is logged with them.
FitToScreen(container, natural) ==
    /\ screen = "exerciseViewerScreen"
    /\ zoomLevel' = FitLevel(container, natural)
    /\ lastCall' = Call("fitToScreen", <<container, natural>>)
    /\ UNCHANGED <<navVars, answerVars, canvasVars, loadVars, pdfVars,
                   zoomAccumulator, zoomTimeout, pinch, clockVars, panelVars, swVars, faultVars, storage, toast>>

\* Variant of the test: every wheel event over the container is a gesture.
AnyWheel(ctrlKey, metaKey) == TRUE

\* isZoomGesture = e.ctrlKey || e.metaKey
IsZoomGesture(ctrlKey, metaKey) == ctrlKey \/ metaKey

\* Variant of the debounce: the timer that is pending is left to fire.
LeaveTimeout(pending) == pending

\* if (zoomTimeout) clearTimeout(zoomTimeout): the timer the variable names,
\* the last one set, is cancelled when it has not fired yet.
ClearTimeout(pending) == IF pending > 0 THEN pending - 1 ELSE 0

\* A wheel event over the image container: with Ctrl or Meta held it is
\* intercepted, the delta is accumulated and the 50 ms timer restarted;
\* otherwise nothing.  The call is logged with the event's deltaY and
\* modifier keys and with whether preventDefault was called.
Wheel(deltaY, ctrlKey, metaKey) ==
    /\ screen = "exerciseViewerScreen"
    /\ IF IsZoomGesture(ctrlKey, metaKey)
       THEN /\ zoomAccumulator + deltaY \in (0 - MaxAccumulator)..MaxAccumulator
            /\ ClearTimeout(zoomTimeout) + 1 <= MaxZoomTimers
            /\ zoomAccumulator' = zoomAccumulator + deltaY
            /\ zoomTimeout' = ClearTimeout(zoomTimeout) + 1
       ELSE UNCHANGED <<zoomAccumulator, zoomTimeout>>
    /\ lastCall' = Call("wheel", <<deltaY, ctrlKey, metaKey,
                                   IsZoomGesture(ctrlKey, metaKey)>>)
    /\ UNCHANGED <<navVars, answerVars, canvasVars, loadVars, pdfVars,
                   zoomLevel, pinch, clockVars, panelVars, swVars, faultVars, storage, toast>>

\* The zoom level after the wheel timer's callback.
WheelZoomLevel(z, accumulator) ==
    IF accumulator > WheelThreshold \/ 0 - accumulator > WheelThreshold
    THEN (IF accumulator < 0 THEN ZoomInLevel(z) ELSE ZoomOutLevel(z))
    ELSE z

\* The wheel timer fires.
ZoomTimeoutFires ==
    /\ zoomTimeout > 0
    /\ zoomLevel' = WheelZoomLevel(zoomLevel, zoomAccumulator)
    /\ zoomAccumulator' = 0
    /\ zoomTimeout' = zoomTimeout - 1
    /\ UNCHANGED <<navVars, answerVars, canvasVars, loadVars, pdfVars,
                   pinch, clockVars, panelVars, swVars, faultVars, storage, toast, lastCall>>

\* touchstart with two fingers in the image container.
PinchStart(distance) ==
    /\ screen = "exerciseViewerScreen"
    /\ pinch' = [initialPinchDistance |-> distance, initialZoomLevel |-> zoomLevel]
    /\ lastCall' = Call("touchstart", << >>)
    /\ UNCHANGED <<navVars, answerVars, canvasVars, loadVars, pdfVars,
                   zoomLevel, zoomAccumulator, zoomTimeout, clockVars, panelVars, swVars, faultVars, storage, toast>>

\* touchmove with two fingers in the image container.
PinchMove(distance) ==
    /\ screen = "exerciseViewerScreen"
    /\ zoomLevel' = IF pinch.initialPinchDistance > 0
                    THEN PinchLevel(pinch.initialZoomLevel, distance,
                                    pinch.initialPinchDistance)
                    ELSE zoomLevel
    /\ lastCall' = Call("touchmove", << >>)
    /\ UNCHANGED <<navVars, answerVars, canvasVars, loadVars, pdfVars,
                   zoomAccumulator, zoomTimeout, pinch, clockVars, panelVars, swVars, faultVars, storage, toast>>

\* ------------------------------------------------------------- drawing

\* The bitmap of the drawing canvas is the set of strokes on it; a stroke is
\* named by the page that was current when it was drawn.  A snapshot
\* (canvas.toDataURL) is the set of strokes it shows.
Stroke(ex, page) == <<ex.name, page>>

\* ctx.drawImage(snapshot, 0, 0): the snapshot's strokes over the bitmap's.
DrawImage(bitmap, snapshot) == bitmap \cup snapshot

\* Variant of saveDrawing: the snapshot is kept in memory only.
SaveInMemoryOnly(bitmap) ==
    /\ savedDrawings' =
          (DrawingKey(currentExercise, currentPage) :> bitmap) @@ savedDrawings
    /\ UNCHANGED storage

\* saveDrawing: the snapshot of the whole canvas under the current key, in
\* memory and in localStorage.
SaveDrawing(bitmap) ==
    IF currentExercise # NoExercise /\ drawing.ctx
    THEN /\ savedDrawings' =
               (DrawingKey(currentExercise, currentPage) :> bitmap) @@ savedDrawings
         /\ storage' = IF storageFull THEN storage
                        ELSE SetItem(storage, "psicotrain_drawings", savedDrawings')
    ELSE UNCHANGED <<savedDrawings, storage>>

\* toggleDrawingMode; the first activation runs initDrawingCanvas itself.
ToggleDrawingMode ==
    /\ screen = "exerciseViewerScreen"
    /\ IF ~drawing.enabled /\ ~drawing.ctx
       THEN /\ drawing' = [drawing EXCEPT !.enabled = TRUE, !.ctx = TRUE]
            /\ img' = [img EXCEPT !.onload = TRUE]
            /\ IF ~img.pending
               THEN /\ canvas' = ResizeCanvas(canvas)
                    /\ Cardinality(RestoreDrawing(currentExercise, currentPage,
                                                  TRUE, decodes)) <= MaxDecodes
                    /\ decodes' = RestoreDrawing(currentExercise, currentPage,
                                                 TRUE, decodes)
               ELSE UNCHANGED <<canvas, decodes>>
       ELSE /\ drawing' = [drawing EXCEPT !.enabled = ~drawing.enabled]
            /\ UNCHANGED <<img, canvas, decodes>>
    /\ toast' = IF drawing.enabled THEN "Modo dibujo desactivado"
                ELSE "Modo dibujo activado"
    /\ lastCall' = Call("toggleDrawingMode", << >>)
    /\ UNCHANGED <<navVars, answerVars, savedDrawings, timers, pdfVars,
                   zoomVars, clockVars, panelVars, swVars, faultVars, storage>>

\* startDrawing / handleTouchStart: mousedown or touchstart on the canvas,
\* whose listeners initDrawingCanvas attached.
StartDrawing ==
    /\ screen = "exerciseViewerScreen"
    /\ drawing.ctx
    /\ drawing' = IF drawing.enabled THEN [drawing EXCEPT !.isDrawing = TRUE]
                  ELSE drawing
    /\ lastCall' = Call("startDrawing", << >>)
    /\ UNCHANGED <<navVars, answerVars, canvas, savedDrawings, decodes,
                   loadVars, pdfVars, zoomVars, clockVars, panelVars, swVars, faultVars, storage, toast>>

\* draw / handleTouchMove: one more segment of the stroke on the bitmap.
Draw ==
    /\ screen = "exerciseViewerScreen"
    /\ drawing.ctx
    /\ canvas' = IF drawing.isDrawing /\ drawing.enabled
                 THEN canvas \cup {Stroke(currentExercise, currentPage)}
                 ELSE canvas
    /\ lastCall' = Call("draw", << >>)
    /\ UNCHANGED <<navVars, answerVars, drawing, savedDrawings, decodes,
                   loadVars, pdfVars, zoomVars, clockVars, panelVars, swVars, faultVars, storage, toast>>

\* stopDrawing: mouseup, mouseout or touchend on the canvas.  The call is
\* logged with whether a stroke was in progress when it was made.
StopDrawing ==
    /\ screen = "exerciseViewerScreen"
    /\ drawing.ctx
    /\ IF drawing.isDrawing
       THEN /\ drawing' = [drawing EXCEPT !.isDrawing = FALSE]
            /\ SaveDrawing(canvas)
       ELSE UNCHANGED <<drawing, savedDrawings, storage>>
    /\ lastCall' = Call("stopDrawing", <<drawing.isDrawing>>)
    /\ UNCHANGED <<navVars, answerVars, canvas, decodes, loadVars, pdfVars,
                   zoomVars, clockVars, panelVars, swVars, faultVars, toast>>

\* clearDrawing: clearRect over the whole canvas, then saveDrawing.
ClearDrawing ==
    /\ screen = "exerciseViewerScreen"
    /\ IF drawing.ctx
       THEN /\ canvas' = {}
            /\ SaveDrawing({})
            /\ toast' = "Dibujo borrado"
       ELSE UNCHANGED <<canvas, savedDrawings, storage, toast>>
    /\ lastCall' = Call("clearDrawing", << >>)
    /\ UNCHANGED <<navVars, answerVars, drawing, decodes, loadVars, pdfVars,
                   zoomVars, clockVars, panelVars, swVars, faultVars>>

\* What the onload of restoreDrawing's Image does with the decoded snapshot:
\* it draws it on the canvas, whatever page is current by then.
ApplyDecoded(bitmap, decode) == DrawImage(bitmap, decode.data)

\* A snapshot decode completes: img.onload of restoreDrawing.
DecodeCompletes(decode) ==
    /\ decode \in decodes
    /\ canvas' = ApplyDecoded(canvas, decode)
    /\ decodes' = decodes \ {decode}
    /\ UNCHANGED <<navVars, answerVars, drawing, savedDrawings, loadVars,
                   pdfVars, zoomVars, clockVars, panelVars, swVars, faultVars, storage, toast, lastCall>>

\* setTool(tool): the tool becomes the active one; the slider shows its
\* remembered width.  The call is logged with the tool that was active.
SetTool(tool) ==
    /\ screen = "exerciseViewerScreen"
    /\ drawing' = [drawing EXCEPT !.tool = tool]
    /\ lastCall' = Call("setTool", <<tool, drawing.tool>>)
    /\ UNCHANGED <<navVars, answerVars, canvas, savedDrawings, decodes,
                   loadVars, pdfVars, zoomVars, clockVars, panelVars, swVars, faultVars, storage,
                   toast>>

\* Variant of the assignment of setBrushSize: one width shared by all tools.
SetSharedSize(sizes, tool, width) == [t \in DOMAIN sizes |-> width]

\* state.drawing.brushSizes[tool] = width
SetSize(sizes, tool, width) == [sizes EXCEPT ![tool] = width]

\* saveBrushSizes: a throwing setItem is caught.
SaveBrushSizes(sizes) ==
    IF storageFull THEN storage
    ELSE SetItem(storage, "psicotrain_brush_sizes", sizes)

\* setBrushSize(size), the slider's input event.  The call is logged with
\* the tool that was active.
SetBrushSize(size) ==
    /\ screen = "exerciseViewerScreen"
    /\ drawing' = [drawing EXCEPT
                      !.brushSizes = SetSize(@, drawing.tool, ParseInt(size))]
    /\ storage' = SaveBrushSizes(drawing'.brushSizes)
    /\ lastCall' = Call("setBrushSize", <<size, drawing.tool>>)
    /\ UNCHANGED <<navVars, answerVars, canvas, savedDrawings, decodes,
                   loadVars, pdfVars, zoomVars, clockVars, panelVars, swVars, faultVars, toast>>

\* ---------------------------------------------------- pointer positions

\* Numbers that are not whole are kept as reduced fractions <<num, den>>.
RECURSIVE GCD(_, _)
GCD(a, b) == IF b = 0 THEN a ELSE GCD(b, a % b)

Abs(n) == IF n < 0 THEN 0 - n ELSE n

\* The number n / d, for d > 0.
Frac(n, d) ==
    LET g == GCD(Abs(n), d)
    IN <<n \div g, d \div g>>

\* The product of a whole number and a fraction.
Times(k, f) == Frac(k * f[1], f[2])

\* Pointer events: a mouse event carries clientX and clientY itself, a touch
\* event carries them in touches[0], a touchend has neither.
PointerKinds == {"mouse", "touch", "none"}

\* The canvas' bitmap size (the image's natural size), and the box
\* getBoundingClientRect gives for it: the 400 x 300 box the stylesheet lays
\* it out in, scaled by the zoom transform and placed in the viewport.
CanvasSize == [width |-> 800, height |-> 600]

ShownZooms == {500, 1000, 1500, 2000}

RectOrigins == {<<0, 0>>, <<37, 0 - 50>>}

Rect(zoom, origin) ==
    [left |-> origin[1], top |-> origin[2],
     width |-> (400 * zoom) \div 1000, height |-> (300 * zoom) \div 1000]

\* Variant of the scale: bitmap and box are taken to have the same size.
SameSize(bitmapSize, shownSize) == Frac(1, 1)

\* scaleX = canvas.width / rect.width, scaleY likewise.
Scale(bitmapSize, shownSize) == Frac(bitmapSize, shownSize)

\* getCanvasCoords(e) for a canvas of the given bitmap size and box: the
\* point <<x, y>>.
GetCanvasCoords(e, size, rect) ==
    IF e.kind \in {"touch", "mouse"}
    THEN <<Times(e.clientX - rect.left, Scale(size.width, rect.width)),
           Times(e.clientY - rect.top, Scale(size.height, rect.height))>>
    ELSE <<Frac(0, 1), Frac(0, 1)>>

\* A pointer event reaches the canvas and its handler asks getCanvasCoords
\* for the point: the event, the box and the point returned are logged.
PointerEvent(e, rect) ==
    /\ lastCall' = Call("getCanvasCoords",
                        <<e, rect, GetCanvasCoords(e, CanvasSize, rect)>>)
    /\ UNCHANGED <<navVars, answerVars, canvasVars, loadVars, pdfVars,
                   zoomVars, clockVars, panelVars, swVars, faultVars, storage, toast>>

\* The window's resize listener: resizeCanvas once the canvas is set up.
WindowResize ==
    /\ canvas' = IF drawing.ctx THEN ResizeCanvas(canvas) ELSE canvas
    /\ lastCall' = Call("resize", << >>)
    /\ UNCHANGED <<navVars, answerVars, drawing, savedDrawings, decodes,
                   loadVars, pdfVars, zoomVars, clockVars, panelVars, swVars, faultVars, storage,
                   toast>>

\* state.sidebarCollapsed as initSidebar reads it back: the stored item, or
\* false as declared.  The model keeps the flag in its stored form only.
SidebarCollapsed(st) == GetItem(st, "psicotrain_sidebar_collapsed", FALSE)

\* toggleSidebar: flip and store the flag, dispatch a resize event, whose
\* listener runs before dispatchEvent returns, and with drawing mode on set
\* the timer that runs initDrawingCanvas once the animation is over.
\* setItem is not in a try block: when it throws, the exception leaves the
\* handler before the resize is dispatched.
ToggleSidebar ==
    /\ IF storageFull
       THEN /\ uncaught' = "toggleSidebar"
            /\ UNCHANGED <<storage, canvas, timers>>
       ELSE /\ storage' = SetItem(storage, "psicotrain_sidebar_collapsed",
                                  ~SidebarCollapsed(storage))
            /\ canvas' = IF drawing.ctx THEN ResizeCanvas(canvas) ELSE canvas
            /\ IF drawing.enabled
               THEN timers < MaxTimers /\ timers' = timers + 1
               ELSE UNCHANGED timers
            /\ UNCHANGED uncaught
    /\ lastCall' = Call("toggleSidebar", << >>)
    /\ UNCHANGED <<navVars, answerVars, drawing, savedDrawings, decodes, img,
                   pdfVars, zoomVars, clockVars, panelVars, swVars, storageFull, toast>>

\* ------------------------------------------------------------ stopwatch

\* toggleStopwatch, the pause / resume button of the viewer.
ToggleStopwatch ==
    /\ screen = "exerciseViewerScreen"
    /\ LET c == Clock(stopwatch, intervals)
       IN IF stopwatch.isRunning
          THEN /\ stopwatch' = StopTimer(c).sw
               /\ intervals' = StopTimer(c).active
          ELSE /\ CanStartTimer(c)
               /\ stopwatch' = StartTimer(c).sw
               /\ intervals' = StartTimer(c).active
    /\ lastCall' = Call("toggleStopwatch", <<stopwatch.isRunning>>)
    /\ UNCHANGED <<navVars, answerVars, canvasVars, loadVars, pdfVars, zoomVars,
                   panelVars, swVars, faultVars, storage, toast>>

\* resetStopwatch: stopTimer, seconds = 0, startTimer.  The call is logged
\* with whether the stopwatch was running when it was made.
ResetStopwatch ==
    /\ screen = "exerciseViewerScreen"
    /\ LET stopped == ResetSeconds(StopTimer(Clock(stopwatch, intervals)))
       IN /\ CanStartTimer(stopped)
          /\ stopwatch' = StartTimer(stopped).sw
          /\ intervals' = StartTimer(stopped).active
    /\ lastCall' = Call("resetStopwatch", <<stopwatch.isRunning>>)
    /\ UNCHANGED <<navVars, answerVars, canvasVars, loadVars, pdfVars, zoomVars,
                   panelVars, swVars, faultVars, storage, toast>>

\* The callback of an active interval: state.stopwatch.seconds++.
Tick(id) ==
    /\ id \in intervals
    /\ stopwatch.seconds < MaxSeconds
    /\ stopwatch' = [stopwatch EXCEPT !.seconds = @ + 1]
    /\ UNCHANGED <<navVars, answerVars, canvasVars, loadVars, pdfVars, zoomVars,
                   intervals, panelVars, swVars, faultVars, storage, toast, lastCall>>

\* ------------------------------------------------------- service worker

\* caches.open(name): the cache of that name, created empty when there is
\* none.
Open(cs, name) == IF name \in DOMAIN cs THEN cs ELSE (name :> << >>) @@ cs

\* cache.match(request): the body stored under the URL, or undefined.
Match(cache, url) == IF url \in DOMAIN cache THEN cache[url] ELSE NoBody

\* Variant of cache.put: an entry that exists is kept.
PutIfAbsent(cache, url, body) ==
    IF url \in DOMAIN cache THEN cache ELSE (url :> body) @@ cache

\* cache.put(request, response): the response is the entry of the URL now.
Put(cache, url, body) == (url :> body) @@ cache

\* What the page receives for a request.
Answer(url, method, source, status, body) ==
    [url |-> url, method |-> method, source |-> source, status |-> status,
     body |-> body]

\* The install listener: cache.addAll(urlsToCache) stores every listed URL
\* as the server has it now, or nothing when one of the requests fails (the
\* rejection is caught and logged); the cache is open either way.
Install(ok) ==
    /\ caches' = IF ok
                 THEN [Open(caches, CACHE_NAME) EXCEPT ![CACHE_NAME] =
                          [u \in urlsToCache |-> <<u, server[u]>>] @@ @]
                 ELSE Open(caches, CACHE_NAME)
    /\ UNCHANGED <<navVars, answerVars, canvasVars, loadVars, pdfVars, zoomVars,
                   clockVars, faultVars, panelVars, server, fetches, puts,
                   served, storage, toast, lastCall>>

\* The activate listener: every cache of another name is deleted.
Activate ==
    /\ caches' = [name \in DOMAIN caches \cap {CACHE_NAME} |-> caches[name]]
    /\ UNCHANGED <<navVars, answerVars, canvasVars, loadVars, pdfVars, zoomVars,
                   clockVars, faultVars, panelVars, server, fetches, puts,
                   served, storage, toast, lastCall>>

\* The fetch listener up to its return: a request that is not a GET is left
\* to the browser; for a GET respondWith is called with the promise chain
\* that starts at caches.open.  Chains at the same point for the same URL
\* are one element: they continue alike.
FetchEvent(url, method) ==
    /\ IF method # "GET"
       THEN /\ served' = Answer(url, method, "browser", 0, NoBody)
            /\ UNCHANGED fetches
       ELSE /\ Cardinality(fetches \cup {[url |-> url, stage |-> "match",
                                          answered |-> FALSE, status |-> "none",
                                          body |-> NoBody]}) <= MaxFetches
            /\ fetches' = fetches \cup {[url |-> url, stage |-> "match",
                                         answered |-> FALSE, status |-> "none",
                                         body |-> NoBody]}
            /\ UNCHANGED served
    /\ UNCHANGED <<navVars, answerVars, canvasVars, loadVars, pdfVars, zoomVars,
                   clockVars, faultVars, panelVars, caches, server, puts,
                   storage, toast, lastCall>>

\* caches.open and cache.match have resolved: fetch(event.request) starts,
\* and `cachedResponse || fetchedResponse' settles respondWith at once when
\* there is an entry, and with the outcome of the network otherwise.
MatchResolves(f) ==
    /\ f \in fetches
    /\ f.stage = "match"
    /\ caches' = Open(caches, CACHE_NAME)
    /\ LET cachedResponse == Match(caches'[CACHE_NAME], f.url)
       IN /\ fetches' = (fetches \ {f}) \cup
                        {[f EXCEPT !.stage = "network",
                                   !.answered = (cachedResponse # NoBody)]}
          /\ served' = IF cachedResponse # NoBody
                       THEN Answer(f.url, "GET", "cache", 200, cachedResponse)
                       ELSE served
    /\ UNCHANGED <<navVars, answerVars, canvasVars, loadVars, pdfVars, zoomVars,
                   clockVars, faultVars, panelVars, server, puts, storage, toast,
                   lastCall>>

\* The network settles fetch(event.request): the server's answer with the
\* version it holds now, or a rejection.
NetworkSettles(f, result) ==
    /\ f \in fetches
    /\ f.stage = "network"
    /\ fetches' = (fetches \ {f}) \cup
                  {[f EXCEPT !.stage = "response", !.status = result,
                             !.body = IF result = "200" THEN <<f.url, server[f.url]>>
                                      ELSE NoBody]}
    /\ UNCHANGED <<navVars, answerVars, canvasVars, loadVars, pdfVars, zoomVars,
                   clockVars, faultVars, panelVars, caches, server, puts, served,
                   storage, toast, lastCall>>

\* The continuation of fetch: a response of status 200 is handed to
\* cache.put and the response is returned; the catch handler turns a
\* rejection into undefined.  A request that got no cached entry is answered
\* now.
ResponseHandled(f) ==
    /\ f \in fetches
    /\ f.stage = "response"
    /\ puts' = IF f.status = "200" THEN puts \cup {[url |-> f.url, body |-> f.body]}
               ELSE puts
    /\ served' = IF f.answered THEN served
                 ELSE CASE f.status = "200" -> Answer(f.url, "GET", "network", 200, f.body)
                        [] f.status = "404" -> Answer(f.url, "GET", "network", 404, NoBody)
                        [] OTHER -> Answer(f.url, "GET", "failed", 0, NoBody)
    /\ fetches' = fetches \ {f}
    /\ UNCHANGED <<navVars, answerVars, canvasVars, loadVars, pdfVars, zoomVars,
                   clockVars, faultVars, panelVars, caches, server, storage,
                   toast, lastCall>>

\* cache.put completes.
PutCompletes(p) ==
    /\ p \in puts
    /\ caches' = [Open(caches, CACHE_NAME) EXCEPT ![CACHE_NAME] =
                     Put(@, p.url, p.body)]
    /\ puts' = puts \ {p}
    /\ UNCHANGED <<navVars, answerVars, canvasVars, loadVars, pdfVars, zoomVars,
                   clockVars, faultVars, panelVars, server, fetches, served,
                   storage, toast, lastCall>>

\* The server publishes a new version of a URL.
Publish(url) ==
    /\ server[url] < MaxVersion
    /\ server' = [server EXCEPT ![url] = @ + 1]
    /\ UNCHANGED <<navVars, answerVars, canvasVars, loadVars, pdfVars, zoomVars,
                   clockVars, faultVars, panelVars, caches, fetches, puts, served,
                   storage, toast, lastCall>>

\* --------------------------------------------------------- specifications

\* The callbacks every specification with page loads needs.
PageLoadCallbacks == TimerFires \/ ImageLoaded

\* The answer panel.
PanelNext ==
    \/ \E category \in Categories : SelectCategory(category)
    \/ \E exercise \in UNION {Exercises[c] : c \in Categories} : SelectExercise(exercise)
    \/ \E q \in Questions, option \in OptionClicks : SelectOption(q, option)
    \/ ClearPageAnswers
    \/ PageLoadCallbacks

PanelSpec == Init /\ [][PanelNext]_vars

\* Committed answers and the statistics.
CommitNext ==
    \/ \E category \in Categories : SelectCategory(category)
    \/ \E exercise \in UNION {Exercises[c] : c \in Categories} : SelectExercise(exercise)
    \/ PrevPage
    \/ NextPage
    \/ \E answer \in ClickLetters : SelectAnswer(answer)
    \/ \E confirmed \in BOOLEAN : ResetStats(confirmed)
    \/ PageLoadCallbacks

CommitSpec == Init /\ [][CommitNext]_vars

\* Zoom: buttons, wheel, fit to screen.
ZoomNext ==
    \/ \E category \in Categories : SelectCategory(category)
    \/ \E exercise \in UNION {Exercises[c] : c \in Categories} : SelectExercise(exercise)
    \/ ZoomIn
    \/ ZoomOut
    \/ ResetZoom
    \/ \E container \in ContainerSizes, natural \in NaturalSizes :
          FitToScreen(container, natural)
    \/ \E deltaY \in WheelDeltas, ctrlKey \in BOOLEAN : Wheel(deltaY, ctrlKey, FALSE)
    \/ ZoomTimeoutFires
    \/ PageLoadCallbacks

ZoomSpec == Init /\ [][ZoomNext]_vars

\* Zoom: buttons and the two-finger pinch, from the levels fitToScreen sets.
PinchNext ==
    \/ \E category \in Categories : SelectCategory(category)
    \/ \E exercise \in UNION {Exercises[c] : c \in Categories} : SelectExercise(exercise)
    \/ ZoomIn
    \/ ZoomOut
    \/ \E container \in ContainerSizes, natural \in NaturalSizes :
          FitToScreen(container, natural)
    \/ \E distance \in PinchDistances : PinchStart(distance)
    \/ \E distance \in PinchDistances : PinchMove(distance)
    \/ PageLoadCallbacks

PinchSpec == Init /\ [][PinchNext]_vars

\* Page navigation, catalog exercises and loaded PDFs.
NavNext ==
    \/ \E category \in Categories : SelectCategory(category)
    \/ \E exercise \in UNION {Exercises[c] : c \in Categories} : SelectExercise(exercise)
    \/ GoBackToList
    \/ PrevPage
    \/ NextPage
    \/ \E file \in PDFFiles : LoadPDFFromFile(file)
    \/ \E task \in tasks, ok \in BOOLEAN : PDFOpened(task, ok)
    \/ \E task \in tasks, ok \in BOOLEAN : PDFPageRendered(task, ok)
    \/ \E task \in tasks, ok \in BOOLEAN : PDFPagePreloaded(task, ok)
    \/ PageLoadCallbacks

NavSpec == Init /\ [][NavNext]_vars

\* The continuations of the async PDF functions when pdf.js resolves every
\* promise: the document opens and every page decodes.
PDFResolves ==
    \E task \in tasks :
        \/ PDFOpened(task, TRUE)
        \/ PDFPageRendered(task, TRUE)
        \/ PDFPagePreloaded(task, TRUE)

\* One three-page PDF is loaded once and paged through; decoding succeeds.
PreloadNext ==
    \/ loadedPDF.document = NoDocument /\ tasks = {} /\ LoadPDFFromFile(LongPDF)
    \/ PrevPage
    \/ NextPage
    \/ PDFResolves
    \/ ImageLoaded

\* A promise of pdf.js that can resolve does resolve, and the browser runs
\* the continuation; nothing obliges the user to press a button.
PreloadSpec == Init /\ [][PreloadNext]_vars /\ WF_vars(PDFResolves)

\* The service worker between the page and the server; the server publishes
\* new versions of the page image, the listed URLs stay as they are.
WorkerNext ==
    \/ \E ok \in BOOLEAN : Install(ok)
    \/ Activate
    \/ \E url \in Urls, method \in Methods : FetchEvent(url, method)
    \/ \E f \in fetches : MatchResolves(f)
    \/ \E f \in fetches, result \in NetworkResults : NetworkSettles(f, result)
    \/ \E f \in fetches : ResponseHandled(f)
    \/ \E p \in puts : PutCompletes(p)
    \/ \E url \in Urls \ urlsToCache : Publish(url)

WorkerSpec == Init /\ [][WorkerNext]_vars

\* Commits, resets and reloads on every page of the catalog.
TallyNext ==
    \/ \E category \in Categories : SelectCategory(category)
    \/ \E exercise \in UNION {Exercises[c] : c \in Categories} : SelectExercise(exercise)
    \/ PrevPage
    \/ NextPage
    \/ \E answer \in ClickLetters : SelectAnswer(answer)
    \/ \E confirmed \in BOOLEAN : ResetStats(confirmed)
    \/ Reload
    \/ PageLoadCallbacks

TallySpec == Init /\ [][TallyNext]_vars

\* Drawing on the page of a one-page exercise while the viewer changes size.
ResizeNext ==
    \/ \E category \in Categories : SelectCategory(category)
    \/ \E exercise \in {e \in UNION {Exercises[c] : c \in Categories} :
                           e.total_pages = 1} : SelectExercise(exercise)
    \/ ToggleDrawingMode
    \/ StartDrawing
    \/ Draw
    \/ StopDrawing
    \/ WindowResize
    \/ ToggleSidebar
    \/ \E decode \in decodes : DecodeCompletes(decode)
    \/ PageLoadCallbacks

ResizeSpec == Init /\ [][ResizeNext]_vars

\* Paging through the catalog exercises and through one loaded PDF.
PagingNext ==
    \/ \E category \in Categories : SelectCategory(category)
    \/ \E exercise \in UNION {Exercises[c] : c \in Categories} : SelectExercise(exercise)
    \/ PrevPage
    \/ NextPage
    \/ \E file \in {f \in PDFFiles : f.numPages > 1} : LoadPDFFromFile(file)
    \/ \E task \in tasks, ok \in BOOLEAN : PDFOpened(task, ok)
    \/ \E task \in tasks, ok \in BOOLEAN : PDFPageRendered(task, ok)
    \/ \E task \in tasks, ok \in BOOLEAN : PDFPagePreloaded(task, ok)
    \/ PageLoadCallbacks

PagingSpec == Init /\ [][PagingNext]_vars

\* The answer panel and the committed answers side by side, in the exercise
\* that has an answer key.
BothPathsNext ==
    \/ \E category \in Categories : SelectCategory(category)
    \/ \E exercise \in {e \in UNION {Exercises[c] : c \in Categories} :
                           e.total_pages > 1} : SelectExercise(exercise)
    \/ \E q \in Questions, option \in OptionClicks : SelectOption(q, option)
    \/ ClearPageAnswers
    \/ \E answer \in ClickLetters : SelectAnswer(answer)
    \/ PageLoadCallbacks

BothPathsSpec == Init /\ [][BothPathsNext]_vars

\* The handlers that write localStorage, with a quota that comes and goes.
StorageNext ==
    \/ \E category \in Categories : SelectCategory(category)
    \/ \E exercise \in {e \in UNION {Exercises[c] : c \in Categories} :
                           e.total_pages > 1} : SelectExercise(exercise)
    \/ SelectOption(1, "A")
    \/ ClearPageAnswers
    \/ SelectAnswer("A")
    \/ \E confirmed \in BOOLEAN : ResetStats(confirmed)
    \/ QuotaChanges
    \/ PageLoadCallbacks

StorageSpec == Init /\ [][StorageNext]_vars

\* Sessions: everything that is persisted, and reloads of the page.
SessionNext ==
    \/ \E category \in Categories : SelectCategory(category)
    \/ \E exercise \in {e \in UNION {Exercises[c] : c \in Categories} :
                           e.total_pages > 1} : SelectExercise(exercise)
    \/ SelectOption(1, "A")
    \/ ClearPageAnswers
    \/ SelectAnswer("A")
    \/ ResetStats(TRUE)
    \/ ToggleDrawingMode
    \/ StartDrawing
    \/ Draw
    \/ StopDrawing
    \/ ClearDrawing
    \/ Reload
    \/ \E decode \in decodes : DecodeCompletes(decode)
    \/ PageLoadCallbacks

SessionSpec == Init /\ [][SessionNext]_vars

\* Pointer events at the corners of the shown canvas and inside it, for
\* every explored zoom and placement.
CoordsNext ==
    \E zoom \in ShownZooms, origin \in RectOrigins, kind \in PointerKinds :
       \E dx \in {0, 7, Rect(zoom, origin).width},
          dy \in {0, 5, Rect(zoom, origin).height} :
          PointerEvent([kind |-> kind,
                        clientX |-> Rect(zoom, origin).left + dx,
                        clientY |-> Rect(zoom, origin).top + dy],
                       Rect(zoom, origin))

CoordsSpec == Init /\ [][CoordsNext]_vars

\* fitToScreen for every explored container and image, between zoom steps.
FitNext ==
    \/ \E category \in Categories : SelectCategory(category)
    \/ \E exercise \in UNION {Exercises[c] : c \in Categories} : SelectExercise(exercise)
    \/ ZoomIn
    \/ ZoomOut
    \/ \E container \in ContainerSizes, natural \in NaturalSizes :
          FitToScreen(container, natural)
    \/ PageLoadCallbacks

FitSpec == Init /\ [][FitNext]_vars

\* Wheel events, with and without the modifier keys, and their timer.
WheelNext ==
    \/ \E category \in Categories : SelectCategory(category)
    \/ \E exercise \in UNION {Exercises[c] : c \in Categories} : SelectExercise(exercise)
    \/ ZoomIn
    \/ ZoomOut
    \/ \E deltaY \in WheelDeltas, ctrlKey \in BOOLEAN, metaKey \in BOOLEAN :
          Wheel(deltaY, ctrlKey, metaKey)
    \/ ZoomTimeoutFires
    \/ PageLoadCallbacks

WheelSpec == Init /\ [][WheelNext]_vars

\* The answers panel and its number of rows.
RowsNext ==
    \/ \E category \in Categories : SelectCategory(category)
    \/ \E exercise \in UNION {Exercises[c] : c \in Categories} : SelectExercise(exercise)
    \/ GoBackToList
    \/ PrevPage
    \/ NextPage
    \/ \E option \in OptionClicks : SelectOption(1, option)
    \/ ClearPageAnswers
    \/ AddMoreQuestions
    \/ PageLoadCallbacks

RowsSpec == Init /\ [][RowsNext]_vars

\* The drawing tools and their widths, across sessions.
BrushNext ==
    \/ \E category \in Categories : SelectCategory(category)
    \/ \E exercise \in {e \in UNION {Exercises[c] : c \in Categories} :
                           e.total_pages > 1} : SelectExercise(exercise)
    \/ \E tool \in Tools : SetTool(tool)
    \/ \E size \in SizeInputs : SetBrushSize(size)
    \/ Reload
    \/ PageLoadCallbacks

BrushSpec == Init /\ [][BrushNext]_vars

\* Strokes, their snapshots and the window resize.
StrokeNext ==
    \/ \E category \in Categories : SelectCategory(category)
    \/ \E exercise \in {e \in UNION {Exercises[c] : c \in Categories} :
                           e.total_pages > 1} : SelectExercise(exercise)
    \/ NextPage
    \/ ToggleDrawingMode
    \/ StartDrawing
    \/ Draw
    \/ StopDrawing
    \/ WindowResize
    \/ \E decode \in decodes : DecodeCompletes(decode)
    \/ PageLoadCallbacks

StrokeSpec == Init /\ [][StrokeNext]_vars

\* The stopwatch across entering and leaving exercises.
ClockNext ==
    \/ \E category \in Categories : SelectCategory(category)
    \/ \E exercise \in UNION {Exercises[c] : c \in Categories} : SelectExercise(exercise)
    \/ GoBackToList
    \/ NextPage
    \/ ZoomOut
    \/ ToggleStopwatch
    \/ ResetStopwatch
    \/ \E id \in intervals : Tick(id)
    \/ PageLoadCallbacks

ClockSpec == Init /\ [][ClockNext]_vars

\* Drawing on the pages of one catalog exercise.
CanvasNext ==
    \/ \E category \in Categories : SelectCategory(category)
    \/ \E exercise \in {e \in UNION {Exercises[c] : c \in Categories} :
                           e.total_pages > 1} : SelectExercise(exercise)
    \/ PrevPage
    \/ NextPage
    \/ ToggleDrawingMode
    \/ StartDrawing
    \/ Draw
    \/ StopDrawing
    \/ ClearDrawing
    \/ \E decode \in decodes : DecodeCompletes(decode)
    \/ PageLoadCallbacks

CanvasSpec == Init /\ [][CanvasNext]_vars

\* ----------------------------------------------------------------- claims

\* C1: after an accepted navigation to another page of the same exercise, once
\* every pending timer, image load and snapshot decode has completed, the
\* canvas holds exactly the snapshot stored under (exercise, current page), or
\* nothing when there is none, and no stroke drawn on another page.
C1_CanvasAfterNavigation ==
    (/\ lastCall.op \in {"prevPage", "nextPage"}
     /\ lastCall.args = <<TRUE>>
     /\ ~currentExercise.isPDF
     /\ drawing.ctx
     /\ timers = 0
     /\ ~img.pending
     /\ decodes = {})
    => LET key == <<currentExercise.name, currentPage>>
       IN /\ canvas = (IF key \in DOMAIN savedDrawings
                       THEN savedDrawings[key] ELSE {})
          /\ canvas \subseteq {key}

\* C2: a snapshot decode that completes when its page is no longer the
\* current one is not drawn: the canvas is left as it was.
C2_StaleDecodeNotDrawn ==
    [][\A decode \in decodes :
          (/\ decode \notin decodes'
           /\ decode.key # <<currentExercise.name, currentPage>>)
          => canvas' = canvas]_vars

\* C3: with an exercise active, currentPage is within 1..total_pages of the
\* current exercise, whatever asynchronous PDF render completes.
C3_PageInRange ==
    currentExercise # NoExercise
    => currentPage \in 1..currentExercise.total_pages

\* C4: prevPage on the first page and nextPage on the last page change
\* nothing, in the catalog variant and in the PDF variant: neither page
\* number moves, no page load or render starts, no notification is shown.
C4_OutOfRangeIsNoOp ==
    [][LET pdfVariant == currentExercise.isPDF /\ loadedPDF.document # NoDocument
           page == IF pdfVariant THEN loadedPDF.currentPage ELSE currentPage
           last == IF pdfVariant THEN loadedPDF.totalPages
                   ELSE currentExercise.total_pages
       IN (\/ IsCall("prevPage") /\ page <= 1
           \/ IsCall("nextPage") /\ page >= last)
          => UNCHANGED <<currentPage, loadedPDF, tasks, img, timers, toast>>]_vars

\* C4 witness: nextPage was refused on the last page of a loaded PDF of
\* several pages.
C4_Witness ==
    /\ lastCall.op = "nextPage"
    /\ lastCall.args = <<FALSE>>
    /\ currentExercise.isPDF
    /\ loadedPDF.totalPages > 1
    /\ loadedPDF.currentPage = loadedPDF.totalPages
    /\ currentPage = loadedPDF.totalPages

\* C5: the zoom level is within [0.2, 4.0] in every reachable state.
C5_ZoomInRange == zoomLevel \in ZoomMin..ZoomMax

\* C6: zoomIn, zoomOut and a pinch move leave the zoom level within
\* [0.2, 4.0] and on a multiple of 0.1.
C6_ZoomStepsInRange ==
    [][(\/ IsCall("zoomIn")
        \/ IsCall("zoomOut")
        \/ IsCall("touchmove") /\ pinch.initialPinchDistance > 0)
       => /\ zoomLevel' \in ZoomMin..ZoomMax
          /\ zoomLevel' % ZoomStep = 0]_vars

\* C7 as stated: of two selectOption calls in a row on the same question, the
\* second with the same option leaves the question unanswered, the second
\* with another option Y leaves it selected as Y only; never two options.
C7_ToggleTwice ==
    [][(/\ IsCall("selectOption")
        /\ lastCall.op = "selectOption"
        /\ lastCall'.args[1] = lastCall.args[1])
       => LET q == lastCall.args[1]
              X == lastCall.args[2]
              Y == lastCall'.args[2]
              after == Selected(GetExerciseAnswers(pageAnswers',
                                                   currentExercise.name), q)
          IN /\ Y = X => after = {}
             /\ Y # X => after = {Y}
             /\ Cardinality(after) <= 1]_vars

\* C7 amended: the same, the first part for a question that was not selected
\* as X before the first of the two calls.
C7_ToggleTwiceFromOther ==
    [][(/\ IsCall("selectOption")
        /\ lastCall.op = "selectOption"
        /\ lastCall'.args[1] = lastCall.args[1])
       => LET q == lastCall.args[1]
              X == lastCall.args[2]
              Y == lastCall'.args[2]
              before == lastCall.args[3]
              after == Selected(GetExerciseAnswers(pageAnswers',
                                                   currentExercise.name), q)
          IN /\ (Y = X /\ before # {X}) => after = {}
             /\ Y # X => after = {Y}
             /\ \A question \in Questions :
                   Cardinality(Selected(GetExerciseAnswers(pageAnswers',
                                   currentExercise.name), question)) <= 1]_vars

\* C7 witness: selectOption(q, X) found q selected as X, as an earlier
\* selectOption(q, X) left it, and q is unanswered now.
C7_Witness ==
    /\ lastCall.op = "selectOption"
    /\ lastCall.args[3] = {lastCall.args[2]}
    /\ Selected(GetExerciseAnswers(pageAnswers, currentExercise.name),
                lastCall.args[1]) = {}

\* C8: every entry of every exercise's panel answer map maps a question
\* number to one of the letters A..E, and after a deselection the question
\* has no entry at all.
C8_EntriesAreLetters ==
    /\ \A name \in DOMAIN pageAnswers :
          \A e \in pageAnswers[name] : e[1] \in Questions /\ e[2] \in Letters
    /\ (lastCall.op = "selectOption" /\ lastCall.args[3] = {lastCall.args[2]})
       => \A e \in GetExerciseAnswers(pageAnswers, currentExercise.name) :
             e[1] # lastCall.args[1]

\* C8 witness: a deselection took place in a map that keeps another entry.
C8_Witness ==
    /\ lastCall.op = "selectOption"
    /\ lastCall.args[3] = {lastCall.args[2]}
    /\ GetExerciseAnswers(pageAnswers, currentExercise.name) # {}

\* C9 as stated: once a record was stored for (exercise, page), every later
\* selectAnswer on that page leaves the records and the counters unchanged
\* and shows the already-answered notification.
C9_RejectedOnceStored ==
    [][(/\ IsCall("selectAnswer")
        /\ <<currentExercise.name, currentPage>> \in committedEver)
       => /\ answeredPages' = answeredPages
          /\ stats' = stats
          /\ toast' = "Ya has respondido esta pregunta"]_vars

\* C9 amended: the same for a selectAnswer made while the record of
\* (exercise, page) exists, that is until a confirmed resetStats removes it.
C9_RejectedWhileRecorded ==
    [][(/\ IsCall("selectAnswer")
        /\ \E r \in answeredPages :
              r.exercise = currentExercise.name /\ r.page = currentPage)
       => /\ answeredPages' = answeredPages
          /\ stats' = stats
          /\ toast' = "Ya has respondido esta pregunta"]_vars

\* C9 witness: a selectAnswer was rejected on a page that has its record.
C9_Witness ==
    /\ lastCall.op = "selectAnswer"
    /\ toast = "Ya has respondido esta pregunta"
    /\ \E r \in answeredPages :
          r.exercise = currentExercise.name /\ r.page = currentPage

\* C10: an accepted selectAnswer records the commit as correct exactly when
\* the selected letter equals the key letter of (category, exercise, page)
\* up to case; it then adds one to stats.correct, on a mismatch one to
\* stats.incorrect, and nothing else changes in the counters.
C10_CorrectIffKeyLetter ==
    [][(/\ IsCall("selectAnswer")
        /\ ~\E r \in answeredPages :
              r.exercise = currentExercise.name /\ r.page = currentPage)
       => LET casePairs == {<<"a", "A">>, <<"b", "B">>, <<"c", "C">>,
                            <<"d", "D">>, <<"e", "E">>}
              SameLetter(x, y) ==
                  x = y \/ <<x, y>> \in casePairs \/ <<y, x>> \in casePairs
              key == <<currentCategory, currentExercise.name, currentPage>>
              hasKey == key \in DOMAIN Answers
              match == hasKey /\ SameLetter(lastCall'.args[1], Answers[key])
              records == {r \in answeredPages' :
                             r.exercise = currentExercise.name /\ r.page = currentPage}
          IN /\ Cardinality(records) = 1
             /\ \A r \in records : (r.wasCorrect = "true") <=> match
             /\ match => stats' = [stats EXCEPT !.correct = @ + 1]
             /\ (hasKey /\ ~match) => stats' = [stats EXCEPT !.incorrect = @ + 1]
             /\ ~hasKey => stats' = stats]_vars

\* C10 witness: "B" was committed on the page keyed "b" and counted correct.
C10_Witness ==
    /\ lastCall.op = "selectAnswer"
    /\ lastCall.args = <<"B">>
    /\ stats.correct = 1
    /\ \E r \in answeredPages :
          /\ r.exercise = "ex1"
          /\ r.page = 1
          /\ r.selected = "B"
          /\ r.wasCorrect = "true"

\* C12: goBackToList sets currentExercise to null and stops the stopwatch,
\* and after it no tick increases the elapsed seconds until the next call.
C12_ExitStopsStopwatch ==
    [][/\ IsCall("goBackToList")
          => /\ currentExercise' = NoExercise
             /\ ~stopwatch'.isRunning
             /\ intervals' = {}
       /\ (lastCall.op = "goBackToList" /\ lastCall' = lastCall)
          => stopwatch'.seconds = stopwatch.seconds]_vars

\* C13: selectExercise(ref) leaves currentExercise = ref, currentPage = 1,
\* zoomLevel = 1, elapsed seconds = 0 and the stopwatch running on one tick
\* timer, whatever the state before.
C13_SelectExerciseResets ==
    [][IsCall("selectExercise")
       => /\ currentExercise' \in Exercises[currentCategory]
          /\ currentExercise'.name = lastCall'.args[1]
          /\ currentPage' = 1
          /\ zoomLevel' = 1000
          /\ stopwatch'.seconds = 0
          /\ stopwatch'.isRunning
          /\ Cardinality(intervals') = 1]_vars

\* C13 witness: an exercise was entered while the stopwatch of the previous
\* one was still running.
C13_Witness ==
    /\ lastCall.op = "selectExercise"
    /\ lastCall.args[2] = TRUE
    /\ currentExercise.name = lastCall.args[1]
    /\ currentPage = 1
    /\ zoomLevel = 1000
    /\ stopwatch.seconds = 0
    /\ stopwatch.isRunning

\* C14: startTimer on a running stopwatch and stopTimer on a stopped one
\* change nothing; at most one tick timer is active, one is active exactly
\* when isRunning, and the elapsed seconds change only by one per tick while
\* running or to zero by resetStopwatch and selectExercise.
C14_OneTickTimer ==
    [][/\ stopwatch'.isRunning
          => StartTimer(Clock(stopwatch', intervals')) = Clock(stopwatch', intervals')
       /\ ~stopwatch'.isRunning
          => StopTimer(Clock(stopwatch', intervals')) = Clock(stopwatch', intervals')
       /\ Cardinality(intervals) <= 1
       /\ Cardinality(intervals') <= 1
       /\ (intervals # {}) <=> stopwatch.isRunning
       /\ (intervals' # {}) <=> stopwatch'.isRunning
       /\ stopwatch'.seconds # stopwatch.seconds
          => \/ /\ lastCall' = lastCall
                /\ stopwatch.isRunning
                /\ stopwatch'.seconds = stopwatch.seconds + 1
             \/ /\ IsCall("resetStopwatch") \/ IsCall("selectExercise")
                /\ stopwatch'.seconds = 0]_vars

\* C14 witness: the stopwatch was stopped by the toggle after a tick.
C14_Witness ==
    /\ lastCall.op = "toggleStopwatch"
    /\ lastCall.args = <<TRUE>>
    /\ stopwatch.seconds > 0
    /\ ~stopwatch.isRunning
    /\ intervals = {}

\* C15: resetStopwatch, from a running or a stopped stopwatch, leaves
\* elapsed seconds = 0 and the stopwatch running on exactly one tick timer.
C15_ResetRestarts ==
    [][IsCall("resetStopwatch")
       => /\ stopwatch'.seconds = 0
          /\ stopwatch'.isRunning
          /\ Cardinality(intervals') = 1
          /\ intervals' = {stopwatch'.timerId}]_vars

\* C15 witness: resetStopwatch was called on a running stopwatch and left it
\* at zero and running on one tick timer.
C15_Witness ==
    /\ lastCall.op = "resetStopwatch"
    /\ lastCall.args = <<TRUE>>
    /\ stopwatch.seconds = 0
    /\ stopwatch.isRunning
    /\ Cardinality(intervals) = 1

\* C11: selectOption and clearPageAnswers change neither answeredPages nor
\* stats, and selectAnswer does not change the panel answer map.
C11_PathsIndependent ==
    [][/\ (IsCall("selectOption") \/ IsCall("clearPageAnswers"))
          => (answeredPages' = answeredPages /\ stats' = stats)
       /\ IsCall("selectAnswer") => pageAnswers' = pageAnswers]_vars

\* C11 witness: the panel was cleared in an exercise that has a committed
\* record and a counted answer.
C11_Witness ==
    /\ lastCall.op = "clearPageAnswers"
    /\ toast = "Respuestas limpiadas"
    /\ GetExerciseAnswers(pageAnswers, currentExercise.name) = {}
    /\ \E r \in answeredPages : r.exercise = currentExercise.name
    /\ stats.correct + stats.incorrect > 0

\* C16: a window resize keeps every stroke that was on the canvas.
C16_ResizeKeepsStrokes ==
    [][IsCall("resize") => canvas \subseteq canvas']_vars

\* C17: stopDrawing with a stroke in progress ends the stroke and stores the
\* snapshot of the whole canvas under (exercise, current page) in
\* savedDrawings and in localStorage; with no stroke in progress it writes
\* nothing.
C17_StrokeEndSaves ==
    [][IsCall("stopDrawing")
       => IF drawing.isDrawing
          THEN /\ ~drawing'.isDrawing
               /\ savedDrawings' =
                     (<<currentExercise.name, currentPage>> :> canvas) @@ savedDrawings
               /\ "psicotrain_drawings" \in DOMAIN storage'
               /\ Parse(storage'["psicotrain_drawings"]) = savedDrawings'
          ELSE savedDrawings' = savedDrawings /\ storage' = storage]_vars

\* C17 witness: a stroke drawn on page 2 was ended and its snapshot is
\* stored under page 2, in memory and in localStorage.
C17_Witness ==
    /\ lastCall.op = "stopDrawing"
    /\ lastCall.args = <<TRUE>>
    /\ currentPage = 2
    /\ canvas # {}
    /\ <<currentExercise.name, 2>> \in DOMAIN savedDrawings
    /\ savedDrawings[<<currentExercise.name, 2>>] = canvas
    /\ "psicotrain_drawings" \in DOMAIN storage
    /\ Parse(storage["psicotrain_drawings"]) = savedDrawings

\* C18: while localStorage.setItem throws, no handler lets the exception
\* escape: whatever step is taken, no new uncaught exception is recorded.
C18_WritesNeverThrow ==
    [][storageFull => uncaught' = uncaught]_vars

\* C19: without storage failures, after every selectOption and every
\* clearPageAnswers that took effect, the item psicotrain_page_answers of
\* localStorage holds the whole of state.pageAnswers, every exercise included.
C19_StoredAnswersInSync ==
    [][(\/ IsCall("selectOption")
        \/ IsCall("clearPageAnswers") /\ currentExercise.name \in DOMAIN pageAnswers)
       /\ ~storageFull
       => /\ "psicotrain_page_answers" \in DOMAIN storage'
          /\ Parse(storage'["psicotrain_page_answers"]) = pageAnswers']_vars

\* C19 witness: answers of two exercises are in memory, the last call was
\* a selectOption, and the stored item holds both exercises' answers.
C19_Witness ==
    /\ lastCall.op = "selectOption"
    /\ Cardinality(DOMAIN pageAnswers) = 2
    /\ \A name \in DOMAIN pageAnswers : pageAnswers[name] # {}
    /\ "psicotrain_page_answers" \in DOMAIN storage
    /\ Parse(storage["psicotrain_page_answers"]) = pageAnswers

\* C20: a reload of the page restores the panel answers, the committed
\* records, the stats and the snapshot map equal to what the session
\* before it had in memory.
C20_ReloadRestores ==
    [][IsCall("reload")
       => /\ pageAnswers' = pageAnswers
          /\ answeredPages' = answeredPages
          /\ stats' = stats
          /\ savedDrawings' = savedDrawings]_vars

\* C20 witness: a fresh session that has panel answers, a committed record,
\* counted stats and a non-empty snapshot, all restored from localStorage.
C20_Witness ==
    /\ lastCall.op = "reload"
    /\ screen = "welcomeScreen"
    /\ \E name \in DOMAIN pageAnswers : pageAnswers[name] # {}
    /\ answeredPages # {}
    /\ stats.correct + stats.incorrect > 0
    /\ \E key \in DOMAIN savedDrawings : savedDrawings[key] # {}

\* C21: a reload of the page restores the pen, highlighter and eraser
\* widths that setBrushSize stored, equal to those in memory before it.
C21_BrushSizesRestored ==
    [][IsCall("reload") => drawing'.brushSizes = drawing.brushSizes]_vars

\* C21 witness: a fresh session whose three widths all differ from the
\* declared ones and are the ones localStorage holds.
C21_Witness ==
    /\ lastCall.op = "reload"
    /\ \A t \in Tools : drawing.brushSizes[t] # InitialBrushSizes[t]
    /\ "psicotrain_brush_sizes" \in DOMAIN storage
    /\ Parse(storage["psicotrain_brush_sizes"]) = drawing.brushSizes

\* C22: setBrushSize(s) sets the width of the active tool to parseInt(s) and
\* leaves the other tools' widths alone; setTool changes no width; before
\* any call the widths are pen 4, highlighter 12, eraser 20.
C22_WidthPerTool ==
    [][/\ lastCall.op = "none"
          => /\ drawing.brushSizes["pen"] = 4
             /\ drawing.brushSizes["highlighter"] = 12
             /\ drawing.brushSizes["eraser"] = 20
       /\ IsCall("setBrushSize")
          => /\ drawing'.brushSizes[drawing.tool] = ParseInt(lastCall'.args[1])
             /\ \A t \in Tools \ {drawing.tool} :
                   drawing'.brushSizes[t] = drawing.brushSizes[t]
             /\ DOMAIN drawing'.brushSizes = Tools
       /\ IsCall("setTool")
          => drawing'.brushSizes = drawing.brushSizes]_vars

\* C22 witness: the user came back from the eraser to the pen, and the pen
\* has the width 7 it was given while the eraser has another, 25.
C22_Witness ==
    /\ lastCall.op = "setTool"
    /\ lastCall.args = <<"pen", "eraser">>
    /\ drawing.tool = "pen"
    /\ drawing.brushSizes["pen"] = 7
    /\ drawing.brushSizes["eraser"] = 25
    /\ drawing.brushSizes["highlighter"] = 12

\* C23 as stated: clearPageAnswers on an exercise with no recorded answers
\* changes no state, writes nothing and notifies nothing.
C23_ClearNoOpWithoutAnswers ==
    [][IsCall("clearPageAnswers")
       /\ GetExerciseAnswers(pageAnswers, currentExercise.name) = {}
       => pageAnswers' = pageAnswers /\ storage' = storage /\ toast' = toast]_vars

\* C23: clearPageAnswers on an exercise that has an answer object (even an
\* empty one) empties that exercise's answers only, leaves every other
\* exercise's answers alone, stores the whole map and notifies; on an
\* exercise without an answer object it changes nothing, writes nothing and
\* notifies nothing.
C23_ClearOnlyCurrent ==
    [][IsCall("clearPageAnswers")
       => IF currentExercise.name \in DOMAIN pageAnswers
          THEN /\ DOMAIN pageAnswers' = DOMAIN pageAnswers
               /\ pageAnswers'[currentExercise.name] = {}
               /\ \A other \in DOMAIN pageAnswers \ {currentExercise.name} :
                     pageAnswers'[other] = pageAnswers[other]
               /\ "psicotrain_page_answers" \in DOMAIN storage'
               /\ Parse(storage'["psicotrain_page_answers"]) = pageAnswers'
               /\ toast' = "Respuestas limpiadas"
          ELSE pageAnswers' = pageAnswers /\ storage' = storage /\ toast' = toast]_vars

\* C23 witness: the current exercise was just cleared while another
\* exercise still has its answers, and the stored map says the same.
C23_Witness ==
    /\ lastCall.op = "clearPageAnswers"
    /\ currentExercise # NoExercise
    /\ currentExercise.name \in DOMAIN pageAnswers
    /\ pageAnswers[currentExercise.name] = {}
    /\ \E other \in DOMAIN pageAnswers : pageAnswers[other] # {}
    /\ toast = "Respuestas limpiadas"
    /\ Parse(storage["psicotrain_page_answers"]) = pageAnswers

\* C24: the panel shows 10 rows before any call; addMoreQuestions adds
\* exactly 5 rows and leaves the answer map alone; no step of navigation,
\* selectOption, clearPageAnswers or selectExercise takes rows away.
C24_RowsOnlyGrow ==
    [][/\ lastCall.op = "none" => NumQuestions(questionsPerPage) = 10
       /\ NumQuestions(questionsPerPage') >= NumQuestions(questionsPerPage)
       /\ IsCall("addMoreQuestions")
          => /\ NumQuestions(questionsPerPage')
                   = NumQuestions(questionsPerPage) + 5
             /\ pageAnswers' = pageAnswers]_vars

\* C24 witness: the panel was grown to 15 rows, and then the user answered
\* a question in another exercise on the 15-row panel.
C24_Witness ==
    /\ NumQuestions(questionsPerPage) = 15
    /\ lastCall.op = "selectOption"
    /\ currentExercise.name = "ex2"
    /\ "ex1" \in DOMAIN pageAnswers
    /\ pageAnswers["ex2"] # {}

\* C25: a wheel event with a modifier held adds its deltaY to the
\* accumulator and leaves exactly one timer pending, whatever was pending
\* before; with no timer pending the accumulator is 0, so that when the
\* timer fires the accumulator is the sum of the burst; the callback zooms
\* in one step when that sum is below -30, out one step when it is above
\* 30, not at all otherwise, and resets the accumulator to 0.
C25_OneStepPerBurst ==
    [][/\ zoomTimeout' <= 1
       /\ zoomTimeout' = 0 => zoomAccumulator' = 0
       /\ IsCall("wheel") /\ lastCall'.args[4]
          => /\ zoomAccumulator' = zoomAccumulator + lastCall'.args[1]
             /\ zoomTimeout' = 1
             /\ zoomLevel' = zoomLevel
       /\ zoomTimeout' < zoomTimeout
          => /\ zoomAccumulator' = 0
             /\ zoomLevel' = IF zoomAccumulator < 0 - 30 THEN ZoomInLevel(zoomLevel)
                             ELSE IF zoomAccumulator > 30 THEN ZoomOutLevel(zoomLevel)
                             ELSE zoomLevel]_vars

\* C25 witness: after a burst that ended with an event of deltaY -20 the
\* timer has fired, the zoom is one step above 1 and the accumulator is 0.
C25_Witness ==
    /\ lastCall.op = "wheel"
    /\ lastCall.args[1] = 0 - 20
    /\ lastCall.args[4]
    /\ zoomLevel = 1000 + ZoomStep
    /\ zoomAccumulator = 0
    /\ zoomTimeout = 0

\* C26: a wheel event over the container with neither Ctrl nor Meta held is
\* not intercepted and changes neither zoomLevel nor the accumulator nor
\* the pending timer.
C26_PlainWheelIgnored ==
    [][IsCall("wheel") /\ ~lastCall'.args[2] /\ ~lastCall'.args[3]
       => /\ ~lastCall'.args[4]
          /\ zoomLevel' = zoomLevel
          /\ zoomAccumulator' = zoomAccumulator
          /\ zoomTimeout' = zoomTimeout]_vars

\* C26 witness: a plain wheel event arrived in the middle of a burst, the
\* burst's sum and timer still pending.
C26_Witness ==
    /\ lastCall.op = "wheel"
    /\ ~lastCall.args[2]
    /\ ~lastCall.args[3]
    /\ zoomAccumulator = 40
    /\ zoomTimeout = 1

\* C27: for a mouse or touch event at (cx, cy), getCanvasCoords returns
\* x = (cx - rect.left) * canvas.width / rect.width and
\* y = (cy - rect.top) * canvas.height / rect.height; the shown top-left
\* corner gives (0, 0) and the shown bottom-right corner gives
\* (canvas.width, canvas.height), at every zoom.
C27_CoordsScaled ==
    [][IsCall("getCanvasCoords") /\ lastCall'.args[1].kind # "none"
       => LET e == lastCall'.args[1]
              rect == lastCall'.args[2]
              x == lastCall'.args[3][1]
              y == lastCall'.args[3][2]
          IN /\ x[2] > 0 /\ y[2] > 0
             /\ x[1] * rect.width
                  = (e.clientX - rect.left) * CanvasSize.width * x[2]
             /\ y[1] * rect.height
                  = (e.clientY - rect.top) * CanvasSize.height * y[2]
             /\ (e.clientX = rect.left /\ e.clientY = rect.top)
                   => x[1] = 0 /\ y[1] = 0
             /\ (e.clientX = rect.left + rect.width
                 /\ e.clientY = rect.top + rect.height)
                   => /\ x[1] = CanvasSize.width /\ x[2] = 1
                      /\ y[1] = CanvasSize.height /\ y[2] = 1]_vars

\* C27 witness: a touch at the bottom-right corner of the canvas shown at
\* zoom 1.5 away from the viewport's server gave the point (800, 600).
C27_Witness ==
    /\ lastCall.op = "getCanvasCoords"
    /\ lastCall.args[1].kind = "touch"
    /\ lastCall.args[2].left = 37
    /\ lastCall.args[2].top = 0 - 50
    /\ lastCall.args[2].width = 600
    /\ lastCall.args[2].height = 450
    /\ lastCall.args[1].clientX = 637
    /\ lastCall.args[1].clientY = 400
    /\ lastCall.args[3] = << <<800, 1>>, <<600, 1>> >>

\* C28: fitToScreen sets the zoom to the smaller of (W - 40) / naturalWidth
\* and (H - 40) / naturalHeight: the width ratio when the image's aspect
\* ratio exceeds that of the container less its margin, else the height
\* ratio.
C28_FitIsSmallerRatio ==
    [][IsCall("fitToScreen")
       => LET container == lastCall'.args[1]
              natural == lastCall'.args[2]
              byWidth == ((container[1] - 40) * 1000) \div natural[1]
              byHeight == ((container[2] - 40) * 1000) \div natural[2]
          IN /\ zoomLevel' = Min(byWidth, byHeight)
             /\ zoomLevel' = IF natural[1] * (container[2] - 40)
                                   > (container[1] - 40) * natural[2]
                             THEN byWidth ELSE byHeight]_vars

\* C28 witness: the 2000 x 500 strip in the 1000 x 500 container is fitted
\* by its width, at 0.48, not by its height, 0.92.
C28_Witness ==
    /\ lastCall.op = "fitToScreen"
    /\ lastCall.args = << <<1000, 500>>, <<2000, 500>> >>
    /\ zoomLevel = 480

\* C29: a resetStats the user does not confirm changes no state and writes
\* nothing; a confirmed one sets both counters to 0 and, localStorage
\* accepting writes, stores them under psicotrain_stats.
C29_ResetNeedsConfirm ==
    [][IsCall("resetStats")
       => IF lastCall'.args[1]
          THEN /\ stats' = [correct |-> 0, incorrect |-> 0]
               /\ ~storageFull
                  => /\ "psicotrain_stats" \in DOMAIN storage'
                     /\ Parse(storage'["psicotrain_stats"]) = stats'
          ELSE /\ stats' = stats
               /\ answeredPages' = answeredPages
               /\ pageAnswers' = pageAnswers
               /\ storage' = storage
               /\ toast' = toast
               /\ UNCHANGED <<navVars, canvasVars, loadVars, pdfVars, zoomVars,
                              clockVars, panelVars, swVars, faultVars>>]_vars

\* C29 witness: the user declined the dialog with an answer counted, and
\* the counters and the stored stats still show it.
C29_Witness ==
    /\ lastCall.op = "resetStats"
    /\ lastCall.args = <<FALSE>>
    /\ stats.correct + stats.incorrect > 0
    /\ answeredPages # {}
    /\ Parse(storage["psicotrain_stats"]) = stats

\* C30: in the PDF variant an accepted prevPage / nextPage to page n whose
\* image is cached shows page n and sets loadedPDF.currentPage and
\* state.currentPage to n; when the image is not cached the render of page
\* n is started.
C30_PDFNavigationSetsPage ==
    [][(IsCall("nextPage") \/ IsCall("prevPage")) /\ lastCall'.args[1] /\ InPDFMode
       => LET n == IF lastCall'.op = "nextPage" THEN loadedPDF.currentPage + 1
                   ELSE loadedPDF.currentPage - 1
          IN IF n \in DOMAIN loadedPDF.pageCache
             THEN /\ img'.src = loadedPDF.pageCache[n]
                  /\ loadedPDF'.currentPage = n
                  /\ currentPage' = n
             ELSE \E task \in tasks' : task.kind = "render" /\ task.page = n]_vars

\* The image element shows page n of the loaded document.
Displays(n) ==
    /\ loadedPDF.document # NoDocument
    /\ img.src = PageImage(loadedPDF.document, n)

\* The neighbours of page n that exist are in the page cache.
NeighboursCached(n) ==
    \A m \in {n - 1, n + 1} \cap (1..loadedPDF.totalPages) : Cached(m)

\* C31: in the PDF variant, once a navigation has put page n on display and
\* every decode succeeds, the pages n-1 and n+1 that the document has are
\* eventually in the page cache.
C31_NeighboursEventuallyCached ==
    \A n \in 1..LongPDF.numPages : Displays(n) ~> NeighboursCached(n)

\* C32: every entry of the page cache is a rendering of that page of the
\* document that is loaded now; a render or preload started for an earlier
\* document adds nothing to the cache of a later one.
C32_CacheOfLoadedDocument ==
    \A n \in DOMAIN loadedPDF.pageCache :
        loadedPDF.pageCache[n] = PageImage(loadedPDF.document, n)

\* The pages of the renderPDFPage calls that have not completed.
PendingPages == {task.page : task \in {t \in tasks : t.kind = "render"}}

\* The page the viewer settles on once every pending render has completed
\* successfully: the furthest page a render is in flight for, or the current
\* page when none is.
SettlesOn ==
    IF PendingPages = {} THEN loadedPDF.currentPage
    ELSE CHOOSE p \in PendingPages : \A q \in PendingPages : q <= p

\* C33: in the PDF variant every accepted nextPage request, issued while
\* pages remain and whether or not an earlier render is still in flight,
\* moves the page the viewer settles on forward by exactly one; k requests
\* in succession therefore end k pages further.
C33_EachRequestAdvances ==
    [][(/\ IsCall("nextPage")
        /\ lastCall'.args[1]
        /\ InPDFMode
        /\ \A p \in PendingPages : p >= loadedPDF.currentPage
        /\ SettlesOn < loadedPDF.totalPages)
       => SettlesOn' = SettlesOn + 1]_vars

\* C34: the snapshot kept under the key of (exercise, p) holds only strokes
\* drawn while p was the current page of that exercise, whatever stroke was
\* in progress during a navigation and whenever stopDrawing or clearDrawing
\* ran between the change of currentPage and the reload of the canvas.
C34_SnapshotOfItsPage ==
    \A exercise \in UNION {Exercises[c] : c \in Categories} :
        \A p \in 1..exercise.total_pages :
            DrawingKey(exercise, p) \in DOMAIN savedDrawings
            => savedDrawings[DrawingKey(exercise, p)] \subseteq {Stroke(exercise, p)}

\* C35: with window resizes and sidebar toggles among the user's actions,
\* the snapshot written at the end of a stroke on a page that has finished
\* loading still contains every stroke of the snapshot that was stored for
\* that page before.
C35_StrokeKeepsSavedStrokes ==
    [][(/\ IsCall("stopDrawing")
        /\ lastCall'.args[1]
        /\ timers = 0 /\ ~img.pending /\ decodes = {}
        /\ DrawingKey(currentExercise, currentPage) \in DOMAIN savedDrawings)
       => savedDrawings[DrawingKey(currentExercise, currentPage)]
             \subseteq savedDrawings'[DrawingKey(currentExercise, currentPage)]]_vars

\* The committed page records whose wasCorrect is the given value.
RecordsWith(wasCorrect) == {r \in answeredPages : r.wasCorrect = wasCorrect}

\* C36: starting from empty storage, in every reachable state stats.correct
\* is the number of committed page records with wasCorrect = true and
\* stats.incorrect the number with wasCorrect = false; the records of commits
\* without an answer-key entry (wasCorrect = null) are in neither count.
C36_StatsMatchRecords ==
    /\ stats.correct = Cardinality(RecordsWith("true"))
    /\ stats.incorrect = Cardinality(RecordsWith("false"))

\* C36 witness: after a reload the session holds a correct, an incorrect and
\* an unkeyed commit.
C36_Witness ==
    /\ lastCall.op = "reload"
    /\ RecordsWith("true") # {}
    /\ RecordsWith("false") # {}
    /\ RecordsWith("null") # {}

\* C37: a confirmed resetStats leaves no committed page record, in memory
\* and in storage, and a commit made while there is no record is accepted
\* whatever page of whatever exercise it is on: every page accepts a new
\* commit after the reset.
C37_ResetReopensPages ==
    [][/\ (IsCall("resetStats") /\ lastCall'.args[1] /\ ~storageFull)
          => /\ answeredPages' = {}
             /\ LoadAnswered(storage') = {}
       /\ (IsCall("selectAnswer") /\ answeredPages = {})
          => /\ toast' # "Ya has respondido esta pregunta"
             /\ \E r \in answeredPages' :
                   /\ r.exercise = currentExercise.name
                   /\ r.page = currentPage
                   /\ r.selected = lastCall'.args[1]]_vars

\* C37 witness: a confirmed reset removed the records of two pages, and the
\* next commit, on one of them or on another page, was accepted.
C37_Witness ==
    /\ lastCall.op = "selectAnswer"
    /\ toast = "Estadisticas reiniciadas"
    /\ Cardinality(committedEver) >= 2
    /\ Cardinality(answeredPages) = 1

\* C38: a GET request is answered with the entry the cache holds for it when
\* cache.match resolves, whatever the server holds by then, and with the
\* outcome of the network when there is no entry; every network response of
\* status 200 is handed to cache.put, and the put makes it the entry of that
\* request, which later requests are answered with; a request that is not a
\* GET starts no promise chain and leaves the cache alone.
C38_StaleWhileRevalidate ==
    [][/\ \A f \in fetches :
             (f.stage = "match" /\ f \notin fetches')
             => LET cache == Open(caches, CACHE_NAME)[CACHE_NAME]
                IN IF f.url \in DOMAIN cache
                   THEN served' = [url |-> f.url, method |-> "GET",
                                   source |-> "cache", status |-> 200,
                                   body |-> cache[f.url]]
                   ELSE /\ served' = served
                        /\ \E g \in fetches' : /\ g.url = f.url
                                                /\ g.stage = "network"
                                                /\ ~g.answered
       /\ \A f \in fetches :
             (f.stage = "response" /\ f \notin fetches')
             => /\ f.status = "200" => [url |-> f.url, body |-> f.body] \in puts'
                /\ IF f.answered THEN served' = served
                   ELSE /\ served'.url = f.url
                        /\ served'.source = IF f.status = "offline" THEN "failed"
                                             ELSE "network"
                        /\ served'.body = f.body
       /\ \A p \in puts :
             p \notin puts' => /\ CACHE_NAME \in DOMAIN caches'
                               /\ p.url \in DOMAIN caches'[CACHE_NAME]
                               /\ caches'[CACHE_NAME][p.url] = p.body
       /\ (served' # served /\ served'.method # "GET")
             => /\ served'.source = "browser"
                /\ UNCHANGED <<caches, fetches, puts>>]_vars

\* C38 witness: the page image was answered from the cache with its first
\* version when the server already held the second, and the put of the
\* revalidation has since made the second version the entry.
C38_Witness ==
    /\ served.source = "cache"
    /\ served.url \notin urlsToCache
    /\ served.body = <<served.url, 1>>
    /\ server[served.url] = 2
    /\ fetches = {} /\ puts = {}
    /\ CACHE_NAME \in DOMAIN caches
    /\ caches[CACHE_NAME][served.url] = <<served.url, 2>>

=============================================================================
